---- MODULE Spec2Model ----
(***************************************************************************)
(* A model of the Amon master: the maintenance-window engine kept in redis *)
(* (master/lib/maintenances.js), its expiry reaper, the predicate          *)
(* isEventInMaintenance, and the event router (master/lib/events.js and    *)
(* App.prototype.processEvent).                                            *)
(*                                                                         *)
(* Conventions.  An optional JavaScript value is a set with at most one    *)
(* element ({} is undefined/null).  An error value is a number: 0 is "no   *)
(* error".  Every redis command is one step: the command runs and its      *)
(* callback runs.                                                          *)
(***************************************************************************)
EXTENDS Integers, Sequences, FiniteSets, TLC

VARIABLES
    \* redis db 1
    maintenanceIds,     \* hash 'maintenanceIds': user -> counter
    maintSet,           \* sets 'maintenances:$user': user -> set of ids
    byEnd,              \* sorted set 'maintenancesByEnd': key -> score
    hashes,             \* hashes 'maintenance:$user:$id': key -> fields
    \* clock and reaper
    now,                \* Date.now()
    tracked,            \* the pending timer `expiryTimeout` refers to
    orphans,            \* pending timers nothing refers to (a bag)
    schedPending,       \* scheduleNextMaintenanceExpiry calls awaiting ZRANGE
    fireOps,            \* fired expiry callbacks in flight (a bag)
    kvErrs,             \* redis failures so far
    \* maintenance API requests
    reqs,               \* request slot -> request in flight
    issued,             \* user -> ids in the order HINCRBY allocated them
    \* event router
    evPc,               \* addEvents: idle, running, replied, threw
    evBody,             \* the events of the request body
    evs,                \* per event: the state of its processEvent call
    evFe,               \* addEvents' asyncForEach: c and errState
    evErrs,             \* addEvents' errs
    evReplies,          \* replies sent for the POST /events request
    \* isEventInMaintenance evaluation
    pdIn, pdOut,
    \* response cache and the directory entity it caches
    dirVal,             \* version of the entity in the directory
    cch,                \* _ufdsCaching and the caches by scope
    rd,                 \* read requests (Get, List)
    wr,                 \* write requests (put, delete)
    acked,              \* version of the latest write that was answered
    \* setup (the ':user' handler) evaluation
    suIn, suOut,
    \* probe authorization evaluation
    azIn, azOut,
    \* cache invalidation evaluation
    kc,                 \* _ufdsCaching and the caches by scope, each key -> value
    ivCall              \* the latest cacheInvalidatePut/Delete call, {} when none

kvVars == <<maintenanceIds, maintSet, byEnd, hashes>>
rpVars == <<now, tracked, orphans, schedPending, fireOps, kvErrs>>
rqVars == <<reqs, issued>>
evVars == <<evPc, evBody, evs, evFe, evErrs, evReplies>>
pdVars == <<pdIn, pdOut>>
cacheVars == <<dirVal, cch, rd, wr, acked>>
suVars == <<suIn, suOut>>
azVars == <<azIn, azOut>>
ivVars == <<kc, ivCall>>
auxVars == <<cacheVars, suVars, azVars, ivVars>>
vars == <<kvVars, rpVars, rqVars, evVars, pdVars, auxVars>>

----------------------------------------------------------------------------
\* Bounds of the model.

\* Largest value of a user's id counter.
MaxId == 2
\* The clock starts at TickMs and ticks by TickMs up to MaxTicks * TickMs;
\* after that it moves only to the instant a timer is set for.
MaxTicks == 3
TickMs == 1000
\* Redis failures in one behaviour.
MaxKvErrors == 1
\* Maintenance API requests in one behaviour (each may overlap the others).
MaxReqs == 2
\* Events in one POST /events body, contacts on one monitor.
MaxBatch == 2
MaxContacts == 2

Users == {"u1", "u2"}
Keys == Users \X (1..MaxId)

\* Bags as functions from element to its positive count.
BagAdd(b, e) ==
    IF e \in DOMAIN b THEN [b EXCEPT ![e] = @ + 1] ELSE b @@ (e :> 1)
BagRemove(b, e) ==
    IF b[e] = 1 THEN [x \in DOMAIN b \ {e} |-> b[x]] ELSE [b EXCEPT ![e] = @ - 1]
EmptyBag == [x \in {} |-> 0]

RECURSIVE BagSize(_)
BagSize(b) ==
    IF DOMAIN b = {} THEN 0
    ELSE LET e == CHOOSE x \in DOMAIN b : TRUE
         IN b[e] + BagSize([x \in DOMAIN b \ {e} |-> b[x]])

RECURSIVE SeqSum(_)
SeqSum(s) == IF Len(s) = 0 THEN 0 ELSE Head(s) + SeqSum(Tail(s))

\* Sequences over S without repetition, of length at most n.
SeqsNoDup(S, n) ==
    UNION {{s \in [1..k -> S] : \A a, b \in 1..k : a # b => s[a] # s[b]} : k \in 0..n}

\* All orders of a finite set.
Perms(S) == {s \in [1..Cardinality(S) -> S] : \A a, b \in 1..Cardinality(S) : a # b => s[a] # s[b]}

----------------------------------------------------------------------------
\* Maintenance windows.

\* A Maintenance object: `all` is a boolean; probes, probeGroups and machines
\* are optional arrays.
Win(u, i, s, e, all, ps, gs, ms) ==
    [user |-> u, id |-> i, start |-> s, end |-> e, all |-> all,
     probes |-> ps, probeGroups |-> gs, machines |-> ms]

WinAll(u, i, s, e) == Win(u, i, s, e, TRUE, {}, {}, {})

KeyOf(m) == <<m.user, m.id>>

\* The windows stored for user u.
StoredOf(u) == {hashes[k] : k \in {x \in DOMAIN hashes : x[1] = u}}

\* ScanMaintenances with the end of the window taken as inside it.
RECURSIVE ScanMaintenancesEndInside(_, _, _, _)
ScanMaintenancesEndInside(ms, i, e, g) ==
    IF i > Len(ms) THEN {}
    ELSE LET m == ms[i] IN
         IF e.time <= m.start \/ m.end < e.time
           THEN ScanMaintenancesEndInside(ms, i + 1, e, g)
         ELSE IF m.all THEN {m}
         ELSE IF m.probeGroups # {} /\ g # {}
           THEN IF \E a \in m.probeGroups : \E x \in g : x \in a
                  THEN {m} ELSE ScanMaintenancesEndInside(ms, i + 1, e, g)
         ELSE IF m.probes # {} /\ e.probeUuid # {}
           THEN IF \E a \in m.probes : \E x \in e.probeUuid : x \in a
                  THEN {m} ELSE ScanMaintenancesEndInside(ms, i + 1, e, g)
         ELSE IF m.machines # {} /\ e.machine # {}
           THEN IF \E a \in m.machines : \E x \in e.machine : x \in a
                  THEN {m} ELSE ScanMaintenancesEndInside(ms, i + 1, e, g)
         ELSE ScanMaintenancesEndInside(ms, i + 1, e, g)

\* for (i...) over listMaintenances' result: the first window the event is in.
RECURSIVE ScanMaintenances(_, _, _, _)
ScanMaintenances(ms, i, e, g) ==
    IF i > Len(ms) THEN {}
    ELSE LET m == ms[i] IN
         IF e.time <= m.start \/ m.end <= e.time
           THEN ScanMaintenances(ms, i + 1, e, g)
         ELSE IF m.all THEN {m}
         ELSE IF m.probeGroups # {} /\ g # {}
           THEN IF \E a \in m.probeGroups : \E x \in g : x \in a
                  THEN {m} ELSE ScanMaintenances(ms, i + 1, e, g)
         ELSE IF m.probes # {} /\ e.probeUuid # {}
           THEN IF \E a \in m.probes : \E x \in e.probeUuid : x \in a
                  THEN {m} ELSE ScanMaintenances(ms, i + 1, e, g)
         ELSE IF m.machines # {} /\ e.machine # {}
           THEN IF \E a \in m.machines : \E x \in e.machine : x \in a
                  THEN {m} ELSE ScanMaintenances(ms, i + 1, e, g)
         ELSE ScanMaintenances(ms, i + 1, e, g)

\* isEventInMaintenance on the windows listed (in SMEMBERS order) for the
\* event's user.
isEventInMaintenance(listed, e, g) == ScanMaintenances(listed, 1, e, g)

----------------------------------------------------------------------------
\* The event router.

\* An event: wf says whether it carries the `probe` object processEvent reads;
\* status is the set holding its `status` attribute ({} when it has none);
\* owner says where the directory holds the monitor the event names: under the
\* event's user ("user"), under another user ("other"), or nowhere ("none").
Event(wf, u, t) ==
    [wf |-> wf, user |-> u, time |-> t, probeUuid |-> {"p1"}, machine |-> {"m1"},
     status |-> {"ok"}, owner |-> "user"]

\* The values the event schema allows for `status`.
EventStatuses == {"ok", "warn", "error"}

EventUniverse == {Event(TRUE, "u1", 2 * TickMs), Event(TRUE, "u1", 3 * TickMs),
                  Event(FALSE, "u1", 2 * TickMs),
                  [Event(TRUE, "u1", 2 * TickMs) EXCEPT !.status = {}],
                  [Event(TRUE, "u1", 2 * TickMs) EXCEPT !.status = {"bogus"}],
                  [Event(TRUE, "u1", 2 * TickMs) EXCEPT !.owner = "none"],
                  [Event(TRUE, "u1", 2 * TickMs) EXCEPT !.owner = "other"]}

\* A request body: an array of events, or one event object.
Bodies ==
    {[array |-> TRUE, items |-> s] : s \in UNION {[1..k -> EventUniverse] : k \in 0..MaxBatch}}
    \cup {[array |-> FALSE, items |-> <<e>>] : e \in EventUniverse}

\* Contact URNs: the attribute name is the medium.
URNs == {"email", "secondaryEmail", "pager"}
ContactLists == SeqsNoDup(URNs, MaxContacts)

\* The notification plugins, in Object.keys order, and the media each accepts.
PluginTypes == <<"email", "sms">>
acceptsMedium(type, medium) ==
    \/ type = "email" /\ medium \in {"email", "secondaryEmail"}
    \/ type = "sms" /\ medium \in {"phone"}

\* The first plugin type accepting the medium; {} when it throws.
RECURSIVE TypeFromMedium(_, _)
TypeFromMedium(medium, i) ==
    IF i > Len(PluginTypes) THEN {}
    ELSE IF acceptsMedium(PluginTypes[i], medium) THEN {PluginTypes[i]}
    ELSE TypeFromMedium(medium, i + 1)
notificationTypeFromMedium(medium) == TypeFromMedium(medium, 1)

\* The attributes the owner's user record carries.
UserAttrs == {"email"}

\* Contact.get: the contact for a URN, or an error.
ContactGet(urn) ==
    LET type == notificationTypeFromMedium(urn) IN
    IF type = {} THEN [err |-> TRUE, address |-> FALSE, notificationType |-> {}]
    ELSE [err |-> FALSE, address |-> urn \in UserAttrs, notificationType |-> type]

\* `events` of addEvents.
EventsFromBody(body) == IF body.array THEN body.items ELSE <<body.items[1]>>

\* One callback of asyncForEach (events.js): the new c and errState, and
\* whether cb was called and with what.
asyncForEachStep(fe, er) ==
    IF fe.errState # 0 THEN [c |-> fe.c, errState |-> fe.errState, final |-> FALSE, arg |-> 0]
    ELSE IF er # 0 THEN [c |-> fe.c, errState |-> er, final |-> TRUE, arg |-> er]
    ELSE IF fe.c - 1 = 0 THEN [c |-> 0, errState |-> 0, final |-> TRUE, arg |-> 0]
    ELSE [c |-> fe.c - 1, errState |-> 0, final |-> FALSE, arg |-> 0]

\* One callback of asyncForEach (the app's copy).
appAsyncForEachStep(fe, er) ==
    IF fe.errState # 0 THEN [c |-> fe.c, errState |-> fe.errState, final |-> FALSE, arg |-> 0]
    ELSE IF er # 0 THEN [c |-> fe.c, errState |-> er, final |-> TRUE, arg |-> er]
    ELSE IF fe.c - 1 = 0 THEN [c |-> 0, errState |-> 0, final |-> TRUE, arg |-> 0]
    ELSE [c |-> fe.c - 1, errState |-> 0, final |-> FALSE, arg |-> 0]

\* What validateAndProcess passes to asyncForEach's callback: cb().
validateAndProcessCbArg(err) == 0

\* What getAndNotifyContact passes to its cb for a contact that ended with
\* error cerr: cb().
getAndNotifyContactCbArgPassErr(cerr) == cerr
getAndNotifyContactCbArg(cerr) == 0

\* `!contact.address` of getAndNotifyContact.
noContactAddressNever(c) == FALSE
noContactAddress(c) == ~c.address

\* What processEvent passes to its callback once asyncForEach over the
\* contacts called back with ferr: callback().
processEventDoneErr(ferr) == 0

\* The reply addEvents sends once asyncForEach is done.
AddEventsReply(errs) ==
    IF Len(errs) > 0
      THEN IF Len(errs) = 1 THEN [kind |-> "error", errs |-> errs]
           ELSE [kind |-> "MultiError", errs |-> errs]
    ELSE [kind |-> "Accepted", errs |-> <<>>]

EvUnhanded ==
    [pc |-> "unhanded", handed |-> 0, cbs |-> 0, err |-> 0, errKind |-> "",
     loaded |-> FALSE,
     contacts |-> <<>>,
     fe |-> [c |-> 0, errState |-> 0], cpc |-> <<>>, notified |-> <<>>,
     alarms |-> <<>>, res |-> <<>>]

\* processEvent's callback for event i, whose state is ev2, with error err:
\* validateAndProcess collects the error and calls asyncForEach's callback.
ProcessEventCallback(i, ev2, err) ==
    LET errs2 == IF err # 0 THEN Append(evErrs, err) ELSE evErrs
        st == asyncForEachStep(evFe, validateAndProcessCbArg(err))
    IN  /\ evs' = [evs EXCEPT ![i] = [ev2 EXCEPT !.cbs = @ + 1, !.err = err]]
        /\ evErrs' = errs2
        /\ evFe' = [c |-> st.c, errState |-> st.errState]
        /\ evReplies' = IF st.final THEN Append(evReplies, AddEventsReply(errs2))
                        ELSE evReplies
        /\ evPc' = IF st.final /\ evPc = "running" THEN "replied" ELSE evPc

\* cb of getAndNotifyContact for contact j of event i, whose state is ev2.
ContactCallback(i, ev2, cerr) ==
    LET st == appAsyncForEachStep(ev2.fe, getAndNotifyContactCbArg(cerr))
        ev3 == [ev2 EXCEPT !.fe = [c |-> st.c, errState |-> st.errState]]
    IN  IF st.final
          THEN ProcessEventCallback(i, ev3, processEventDoneErr(st.arg))
          ELSE /\ evs' = [evs EXCEPT ![i] = ev3]
               /\ UNCHANGED <<evErrs, evFe, evReplies, evPc>>

EvFrame == UNCHANGED <<kvVars, rpVars, rqVars, pdVars, auxVars>>

\* POST /events: addEvents up to its first asynchronous call.  forEach hands
\* the events to processEvent in order; an event without `probe` makes
\* processEvent throw, which ends the handler.
AddEvents(body, fw) ==
    /\ evPc = "idle"
    /\ EvFrame
    /\ LET events == EventsFromBody(body)
           n == Len(events)
           bad == {i \in 1..n : ~events[i].wf}
           firstBad == IF bad = {} THEN n + 1
                       ELSE CHOOSE i \in bad : \A j \in bad : i <= j
       IN /\ evBody' = events
          /\ evs' = [i \in 1..n |->
                       IF i < firstBad
                         THEN [EvUnhanded EXCEPT !.pc = "monitorGet", !.handed = 1]
                       ELSE IF i = firstBad
                         THEN [EvUnhanded EXCEPT !.pc = "threw", !.handed = 1]
                       ELSE EvUnhanded]
          /\ evFe' = [c |-> n, errState |-> 0]
          /\ evErrs' = <<>>
          /\ IF n = 0
               THEN evReplies' = <<AddEventsReply(<<>>)>> /\ evPc' = "replied"
             ELSE IF firstBad <= n
               THEN /\ evPc' = "threw"
                    /\ evReplies' = IF fw THEN <<[kind |-> "uncaught", errs |-> <<>>]>>
                                    ELSE <<>>
             ELSE evReplies' = <<>> /\ evPc' = "running"

\* The error Monitor.get calls back with when the directory holds no monitor
\* of that name under the user it was asked for, and when the search failed.
MonitorGetErr(found) == IF found THEN "InternalError" ELSE "ResourceNotFound"

\* Monitor.get(app, event.probe.user, event.probe.monitor) called back for
\* event i: an error, or the monitor.  The search is made under the event's
\* own user, so a monitor held under another user is not found.
MonitorGetDone(i, failed, contacts) ==
    /\ i \in DOMAIN evs
    /\ evs[i].pc = "monitorGet"
    /\ evBody[i].owner # "user" => failed
    /\ IF failed
         THEN ProcessEventCallback(i, [evs[i] EXCEPT !.pc = "contacts",
                                         !.errKind = MonitorGetErr(evBody[i].owner = "user")], i)
       ELSE LET n == Len(contacts)
                ev2 == [evs[i] EXCEPT !.pc = "contacts", !.loaded = TRUE,
                                      !.contacts = contacts,
                                      !.fe = [c |-> n, errState |-> 0],
                                      !.cpc = [j \in 1..n |-> "get"],
                                      !.notified = [j \in 1..n |-> 0],
                                      !.alarms = [j \in 1..n |-> 0],
                                      !.res = [j \in 1..n |-> "pending"]]
            IN IF n = 0
                 THEN ProcessEventCallback(i, ev2, processEventDoneErr(0))
               ELSE /\ evs' = [evs EXCEPT ![i] = ev2]
                    /\ UNCHANGED <<evErrs, evFe, evReplies, evPc>>
    /\ UNCHANGED evBody
    /\ EvFrame

\* Contact.get called back for contact j of event i.
ContactGetDone(i, j) ==
    /\ i \in DOMAIN evs
    /\ j \in DOMAIN evs[i].cpc
    /\ evs[i].cpc[j] = "get"
    /\ LET c == ContactGet(evs[i].contacts[j]) IN
       IF c.err
         THEN ContactCallback(i, [evs[i] EXCEPT !.cpc[j] = "done", !.res[j] = "resolveErr"], 1)
       ELSE IF noContactAddress(c)
         \* alarmConfig calls back at once
         THEN ContactCallback(i, [evs[i] EXCEPT !.cpc[j] = "done", !.res[j] = "alarmed",
                                                !.alarms[j] = @ + 1], 0)
       ELSE IF \A t \in c.notificationType : \A k \in 1..Len(PluginTypes) : PluginTypes[k] # t
         THEN ContactCallback(i, [evs[i] EXCEPT !.cpc[j] = "done",
                                                !.res[j] = "pluginMissing"], 1)
       ELSE /\ evs' = [evs EXCEPT ![i].cpc[j] = "notify", ![i].notified[j] = @ + 1]
            /\ UNCHANGED <<evErrs, evFe, evReplies, evPc>>
    /\ UNCHANGED evBody
    /\ EvFrame

\* The plugin's notify called back for contact j of event i.
NotifyDone(i, j, ok) ==
    /\ i \in DOMAIN evs
    /\ j \in DOMAIN evs[i].cpc
    /\ evs[i].cpc[j] = "notify"
    /\ ContactCallback(i, [evs[i] EXCEPT !.cpc[j] = "done",
                                         !.res[j] = IF ok THEN "notifyOk" ELSE "notifyErr"],
                       IF ok THEN 0 ELSE 1)
    /\ UNCHANGED evBody
    /\ EvFrame

EvInit ==
    /\ evPc = "idle"
    /\ evBody = <<>>
    /\ evs = <<>>
    /\ evFe = [c |-> 0, errState |-> 0]
    /\ evErrs = <<>>
    /\ evReplies = <<>>

EvNext ==
    \/ \E body \in Bodies, fw \in BOOLEAN : AddEvents(body, fw)
    \/ \E i \in 1..MaxBatch, failed \in BOOLEAN, cs \in ContactLists : MonitorGetDone(i, failed, cs)
    \/ \E i \in 1..MaxBatch, j \in 1..MaxContacts : ContactGetDone(i, j)
    \/ \E i \in 1..MaxBatch, j \in 1..MaxContacts, ok \in BOOLEAN : NotifyDone(i, j, ok)

----------------------------------------------------------------------------
\* Specifications.

\* The request slot is free.
IdleReq ==
    [type |-> "idle", user |-> "u1", id |-> 0, pc |-> "", resp |-> "",
     maint |-> {}, todo |-> {}, bogus |-> {}, got |-> {},
     issuedBefore |-> FALSE, opts |-> {}, caller |-> "", nulls |-> FALSE,
     ended |-> 0]

\* The store holding one window of u1, as createMaintenance leaves it.
StoreOneWindow ==
    /\ maintenanceIds = [u \in Users |-> IF u = "u1" THEN 1 ELSE 0]
    /\ maintSet = [u \in Users |-> IF u = "u1" THEN {1} ELSE {}]
    /\ byEnd = (<<"u1", 1>> :> 3 * TickMs)
    /\ hashes = (<<"u1", 1>> :> WinAll("u1", 1, TickMs, 3 * TickMs))

StoreEmpty ==
    /\ maintenanceIds = [u \in Users |-> 0]
    /\ maintSet = [u \in Users |-> {}]
    /\ byEnd = EmptyBag
    /\ hashes = EmptyBag

RpIdle ==
    /\ now = TickMs
    /\ tracked = {}
    /\ orphans = EmptyBag
    /\ schedPending = 0
    /\ fireOps = EmptyBag
    /\ kvErrs = 0

RqIdle ==
    /\ reqs = [s \in 1..MaxReqs |-> IdleReq]
    /\ issued = [u \in Users |-> <<>>]

PdIdle ==
    /\ pdIn = {}
    /\ pdOut = {}

CacheIdle ==
    /\ dirVal = 0
    /\ cch = [on |-> FALSE, List |-> {}, Get |-> {}, head |-> {}]
    /\ rd = <<>>
    /\ wr = <<>>
    /\ acked = 0

SuIdle ==
    /\ suIn = {}
    /\ suOut = {}

AzIdle ==
    /\ azIn = {}
    /\ azOut = {}

IvIdle ==
    /\ kc = [on |-> FALSE]
    /\ ivCall = {}

AuxIdle == CacheIdle /\ SuIdle /\ AzIdle /\ IvIdle

\* The event router, over a store that holds a window or none.
EventsInit ==
    /\ StoreOneWindow \/ StoreEmpty
    /\ RpIdle /\ RqIdle /\ PdIdle /\ AuxIdle
    /\ EvInit

SpecEvents == EventsInit /\ [][EvNext]_vars

----------------------------------------------------------------------------
\* The maintenance engine: redis commands, API requests, the expiry reaper.

MAX_REAPER_FREQ == 1000
\* rescheduleLater: 5 * 60 * 1000
RESCHEDULE_LATER_MS == 300000

MtFrame == UNCHANGED <<evVars, pdVars, auxVars>>

Max(a, b) == IF a >= b THEN a ELSE b

\* HINCRBY: the new value of the counter.
HIncrByStuck(old, by) == Max(old, by)
HIncrByDown(old, by) == old - by
HIncrBy(old, by) == old + by

\* isPositiveInteger
isPositiveInteger(n) == n \in Int /\ n > 0

\* The Maintenance constructor accepts the data: id, start and end are
\* positive integers and exactly one scope is given.
numScopesAllOnly(d) == IF d.all THEN 1 ELSE 0

\* numScopes of createMaintenance and of the Maintenance constructor.
numScopes(d) ==
    (IF d.all THEN 1 ELSE 0) + (IF d.probes # {} THEN 1 ELSE 0)
    + (IF d.probeGroups # {} THEN 1 ELSE 0) + (IF d.machines # {} THEN 1 ELSE 0)
MaintenanceValid(d) ==
    /\ d.id # 0 /\ isPositiveInteger(d.id)
    /\ d.start # 0 /\ isPositiveInteger(d.start)
    /\ d.end # 0 /\ isPositiveInteger(d.end)
    /\ numScopes(d) = 1

\* app.assertRedisObject(data): whether it reports an error for the reply.
assertRedisObject(data) == FALSE

\* HGETALL of a key: the stored fields, {} when there is no such hash.
HGetAll(k) == IF k \in DOMAIN hashes THEN {hashes[k]} ELSE {}

\* MULTI sadd, zadd, hmset of createMaintenance.
KvCreate(m) ==
    /\ maintSet' = [maintSet EXCEPT ![m.user] = @ \cup {m.id}]
    /\ byEnd' = [k \in DOMAIN byEnd \cup {KeyOf(m)} |->
                    IF k = KeyOf(m) THEN m.end ELSE byEnd[k]]
    /\ hashes' = [k \in DOMAIN hashes \cup {KeyOf(m)} |->
                    IF k = KeyOf(m) THEN m ELSE hashes[k]]

\* MULTI srem, zrem, del of deleteMaintenance.
KvDeleteSetOnly(k) ==
    /\ maintSet' = [maintSet EXCEPT ![k[1]] = @ \ {k[2]}]
    /\ byEnd' = [x \in DOMAIN byEnd \ {k} |-> byEnd[x]]
    /\ UNCHANGED hashes
KvDelete(k) ==
    /\ maintSet' = [maintSet EXCEPT ![k[1]] = @ \ {k[2]}]
    /\ byEnd' = [x \in DOMAIN byEnd \ {k} |-> byEnd[x]]
    /\ hashes' = [x \in DOMAIN hashes \ {k} |-> hashes[x]]

\* A redis command fails: one more failure, within the bound.
KvFails ==
    /\ kvErrs < MaxKvErrors
    /\ kvErrs' = kvErrs + 1

\* ZRANGE maintenancesByEnd 0 0 WITHSCORES: the member with the smallest
\* score, the smallest member among equals.
UserRank(u) == IF u = "u1" THEN 1 ELSE 2
KeyBefore(a, b) ==
    \/ UserRank(a[1]) < UserRank(b[1])
    \/ a[1] = b[1] /\ a[2] <= b[2]
ZRangeFirst ==
    {k \in DOMAIN byEnd :
        \A x \in DOMAIN byEnd :
            byEnd[k] < byEnd[x] \/ (byEnd[k] = byEnd[x] /\ KeyBefore(k, x))}

\* The timer's delay has elapsed.
Due(t) == now >= t.fireAt

ExpiryTimerAtOnce(k, end) ==
    [kind |-> "expiry", key |-> k, fireAt |-> now + MAX_REAPER_FREQ]
ExpiryTimer(k, end) ==
    [kind |-> "expiry", key |-> k, fireAt |-> now + Max(MAX_REAPER_FREQ, end - now)]
RetryTimer ==
    [kind |-> "retry", key |-> <<"u1", 0>>, fireAt |-> now + RESCHEDULE_LATER_MS]

\* scheduleNextMaintenanceExpiry up to its ZRANGE, called n times in a row:
\* the timer expiryTimeout refers to is cleared, n ZRANGEs are awaited.
ScheduleCalls(n) ==
    /\ tracked' = IF n > 0 THEN {} ELSE tracked
    /\ schedPending' = schedPending + n

\* Requests arrive one per slot, in the order of the slots.
NextSlot(s) ==
    /\ reqs[s].type = "idle"
    /\ \A x \in 1..(s - 1) : reqs[x].type # "idle"

\* Ids HINCRBY may still hand out for u within the bound.
CreatesInFlight(u) ==
    Cardinality({s \in DOMAIN reqs : reqs[s].type = "create" /\ reqs[s].user = u
                                     /\ reqs[s].pc = "hincrby"})

\* dateFromStart(start).getTime() at time t: 'now' or a timestamp.
dateFromStart(start, t) == IF start.kind = "now" THEN t ELSE start.t

\* An end value is a string of an integer and a letter (kind "rel": '1h',
\* '0m', '-1h') or a timestamp (kind "ts").
EndRel(n, type) == [kind |-> "rel", num |-> n, type |-> type]
EndTs(t) == [kind |-> "ts", num |-> t, type |-> ""]

\* endPattern = /^([1-9]\d*)([mhd])$/ matches the end value.
endPatternAnyNumber(end) == end.kind = "rel" /\ end.type \in {"m", "h", "d"}
endPattern(end) == end.kind = "rel" /\ end.num >= 1 /\ end.type \in {"m", "h", "d"}

\* The milliseconds dateFromEnd adds for one m, h or d.
MinuteMs == 60 * 1000
HourMs == 60 * 60 * 1000
DayMs == 24 * 60 * 60 * 1000
UnitMs(type) == CASE type = "m" -> MinuteMs [] type = "h" -> HourMs [] type = "d" -> DayMs

\* dateFromEnd(end).getTime() at time t: 'N[mhd]' is that long after now,
\* anything else goes to new Date(end): a timestamp is itself, a string of
\* digits and a letter is an invalid date and dateFromEnd throws ({}).
dateFromEnd(end, t) ==
    IF endPattern(end) THEN {t + end.num * UnitMs(end.type)}
    ELSE IF end.kind = "ts" THEN {end.num}
    ELSE {}

\* The options of a create request: start 'now', an end relative to now, and
\* all = true or no scope at all.
CreateOpts ==
    {[start |-> [kind |-> "now", t |-> 0], end |-> EndRel(e, "m"),
      all |-> a, probes |-> {}, probeGroups |-> {}, machines |-> {}] :
        e \in {1}, a \in BOOLEAN}

\* POST /pub/:user/maintenances: createMaintenance up to HINCRBY.
StartCreate(s, u, o) ==
    /\ NextSlot(s)
    /\ maintenanceIds[u] + CreatesInFlight(u) < MaxId
    /\ LET end == dateFromEnd(o.end, now)
           data == Win(u, 0, dateFromStart(o.start, now), CHOOSE e \in end : TRUE,
                        o.all, o.probes, o.probeGroups, o.machines) IN
       IF numScopes(o) # 1
         THEN reqs' = [reqs EXCEPT ![s] = [IdleReq EXCEPT !.type = "create", !.user = u,
                                  !.pc = "done", !.resp = "InvalidArgument",
                                  !.opts = {o}]]
       ELSE IF end = {}
         THEN reqs' = [reqs EXCEPT ![s] = [IdleReq EXCEPT !.type = "create", !.user = u,
                                  !.pc = "done", !.resp = "TypeError thrown",
                                  !.opts = {o}]]
       ELSE reqs' = [reqs EXCEPT ![s] = [IdleReq EXCEPT !.type = "create", !.user = u,
                                  !.pc = "hincrby", !.maint = {data}, !.opts = {o}]]
    /\ UNCHANGED <<kvVars, rpVars, issued>>
    /\ MtFrame

\* HINCRBY maintenanceIds $user 1 and its callback: the Maintenance is built
\* and the MULTI is sent.
CreateHincrby(s, fail) ==
    /\ reqs[s].type = "create" /\ reqs[s].pc = "hincrby"
    /\ IF fail
         THEN /\ KvFails
              /\ reqs' = [reqs EXCEPT ![s].pc = "done", ![s].resp = "RedisError"]
              /\ UNCHANGED <<maintenanceIds, issued>>
       ELSE LET u == reqs[s].user
                id == HIncrBy(maintenanceIds[u], 1)
                data == [(CHOOSE d \in reqs[s].maint : TRUE) EXCEPT !.id = id]
            IN /\ maintenanceIds' = [maintenanceIds EXCEPT ![u] = id]
               /\ issued' = [issued EXCEPT ![u] = Append(@, id)]
               /\ reqs' = IF MaintenanceValid(data)
                            THEN [reqs EXCEPT ![s].pc = "multi", ![s].id = id,
                                              ![s].maint = {data}]
                          ELSE [reqs EXCEPT ![s].pc = "done", ![s].id = id,
                                            ![s].resp = "InvalidArgument"]
               /\ UNCHANGED kvErrs
    /\ UNCHANGED <<maintSet, byEnd, hashes, now, tracked, orphans, schedPending, fireOps>>
    /\ MtFrame

\* MULTI sadd zadd hmset EXEC and its callback: the reaper is poked and the
\* window is sent.
CreateMulti(s, fail) ==
    /\ reqs[s].type = "create" /\ reqs[s].pc = "multi"
    /\ IF fail
         THEN /\ KvFails
              /\ reqs' = [reqs EXCEPT ![s].pc = "done", ![s].resp = "RedisError"]
              /\ UNCHANGED <<maintSet, byEnd, hashes, tracked, schedPending>>
       ELSE /\ KvCreate(CHOOSE m \in reqs[s].maint : TRUE)
            /\ ScheduleCalls(1)
            /\ reqs' = [reqs EXCEPT ![s].pc = "done", ![s].resp = "ok"]
            /\ UNCHANGED kvErrs
    /\ UNCHANGED <<maintenanceIds, issued, now, orphans, fireOps>>
    /\ MtFrame

\* GET or DELETE /pub/:user/maintenances/:maintenance: reqGetMaintenanceWindow
\* up to the HGETALL of Maintenance.get.
StartGetOrDelete(s, type, u, id) ==
    /\ NextSlot(s)
    /\ isPositiveInteger(id)
    /\ reqs' = [reqs EXCEPT ![s] = [IdleReq EXCEPT !.type = type, !.user = u, !.id = id,
                             !.pc = "hgetall",
                             !.issuedBefore = (id \in {issued[u][n] : n \in DOMAIN issued[u]})]]
    /\ UNCHANGED <<kvVars, rpVars, issued>>
    /\ MtFrame

\* Whether `id <= currId` of reqGetMaintenanceWindow.
idWasIssuedStrict(id, currId) == id < currId
idWasIssued(id, currId) == id <= currId

\* HGETALL of Maintenance.get for a request, and its callback.
ReqHgetall(s, fail) ==
    /\ reqs[s].type \in {"get", "delete"} /\ reqs[s].pc = "hgetall"
    /\ IF fail
         THEN /\ KvFails
              /\ reqs' = [reqs EXCEPT ![s].pc = "done", ![s].resp = "InternalError"]
       ELSE LET data == HGetAll(<<reqs[s].user, reqs[s].id>>) IN
            /\ UNCHANGED kvErrs
            /\ IF assertRedisObject(data)
                 THEN reqs' = [reqs EXCEPT ![s].pc = "hget"]
               ELSE IF \E d \in data : MaintenanceValid(d)
                 THEN IF reqs[s].type = "get"
                        THEN reqs' = [reqs EXCEPT ![s].pc = "done", ![s].resp = "ok",
                                                  ![s].maint = data]
                      ELSE reqs' = [reqs EXCEPT ![s].pc = "delMulti", ![s].maint = data]
               ELSE reqs' = [reqs EXCEPT ![s].pc = "fakeDel"]
    /\ UNCHANGED <<kvVars, now, tracked, orphans, schedPending, fireOps, issued>>
    /\ MtFrame

\* The number of calls of app.handleMaintenanceEnd deleteMaintenance makes once
\* its MULTI called back: one for a real window (one with `end`) when the
\* MULTI succeeded, none when it failed and none for a fake maint.
hookCallsAlways(redisErr, real) == 1
hookCalls(redisErr, real) == IF redisErr THEN 0 ELSE IF real THEN 1 ELSE 0

\* MULTI srem zrem del EXEC of the delete of a bogus (or missing) window that
\* Maintenance.get issues, and its callback: HGET maintenanceIds is sent.
ReqFakeDel(s, fail) ==
    /\ reqs[s].type \in {"get", "delete"} /\ reqs[s].pc = "fakeDel"
    /\ IF fail
         THEN /\ KvFails
              /\ reqs' = [reqs EXCEPT ![s].pc = "done", ![s].resp = "InternalError",
                                      ![s].ended = @ + hookCalls(TRUE, FALSE)]
              /\ UNCHANGED <<maintSet, byEnd, hashes>>
       ELSE /\ KvDelete(<<reqs[s].user, reqs[s].id>>)
            /\ reqs' = [reqs EXCEPT ![s].pc = "hget",
                                    ![s].ended = @ + hookCalls(FALSE, FALSE)]
            /\ UNCHANGED kvErrs
    /\ UNCHANGED <<maintenanceIds, now, tracked, orphans, schedPending, fireOps, issued>>
    /\ MtFrame

\* HGET maintenanceIds $user and its callback: 410 or 404.
ReqHget(s, fail) ==
    /\ reqs[s].type \in {"get", "delete"} /\ reqs[s].pc = "hget"
    /\ IF fail
         THEN /\ KvFails
              /\ reqs' = [reqs EXCEPT ![s].pc = "done", ![s].resp = "RedisError"]
       ELSE /\ UNCHANGED kvErrs
            /\ reqs' = [reqs EXCEPT ![s].pc = "done",
                           ![s].resp = IF idWasIssued(reqs[s].id, maintenanceIds[reqs[s].user])
                                         THEN "Gone" ELSE "ResourceNotFound"]
    /\ UNCHANGED <<kvVars, now, tracked, orphans, schedPending, fireOps, issued>>
    /\ MtFrame

\* MULTI srem zrem del EXEC of apiDeleteMaintenanceWindow's deleteMaintenance
\* and its callback: handleMaintenanceEnd runs (and may fail), the reaper is
\* poked, 204 is sent.
ReqDelMulti(s, fail, endErr) ==
    /\ reqs[s].type = "delete" /\ reqs[s].pc = "delMulti"
    /\ IF fail
         THEN /\ KvFails
              /\ ~endErr
              /\ reqs' = [reqs EXCEPT ![s].pc = "done", ![s].resp = "InternalError",
                                      ![s].ended = @ + hookCalls(TRUE, TRUE)]
              /\ UNCHANGED <<maintSet, byEnd, hashes, tracked, schedPending>>
       ELSE /\ KvDelete(<<reqs[s].user, reqs[s].id>>)
            /\ ScheduleCalls(1)
            /\ reqs' = [reqs EXCEPT ![s].pc = "done",
                           ![s].resp = IF endErr THEN "InternalError" ELSE "204",
                           ![s].ended = @ + hookCalls(FALSE, TRUE)]
            /\ UNCHANGED kvErrs
    /\ UNCHANGED <<maintenanceIds, now, orphans, fireOps, issued>>
    /\ MtFrame

\* GET /pub/:user/maintenances: listMaintenances up to SMEMBERS.
StartList(s, u) ==
    /\ NextSlot(s)
    /\ reqs' = [reqs EXCEPT ![s] = [IdleReq EXCEPT !.type = "list", !.user = u,
                             !.pc = "smembers"]]
    /\ UNCHANGED <<kvVars, rpVars, issued>>
    /\ MtFrame

\* SMEMBERS maintenances:$user and its callback: async.map sends a
\* Maintenance.get for each id.
ListSmembers(s, fail) ==
    /\ reqs[s].type = "list" /\ reqs[s].pc = "smembers"
    /\ IF fail
         THEN /\ KvFails
              /\ reqs' = [reqs EXCEPT ![s].pc = "done", ![s].resp = "InternalError"]
       ELSE /\ UNCHANGED kvErrs
            /\ reqs' = IF maintSet[reqs[s].user] = {}
                         THEN [reqs EXCEPT ![s].pc = "done", ![s].resp = "ok"]
                       ELSE [reqs EXCEPT ![s].pc = "map", ![s].todo = maintSet[reqs[s].user]]
    /\ UNCHANGED <<kvVars, now, tracked, orphans, schedPending, fireOps, issued>>
    /\ MtFrame

\* The list request after one more of its Maintenance.get calls ended: the
\* reply is sent when the last one did.
ListAfter(r) ==
    IF r.todo = {} /\ r.bogus = {}
      THEN [r EXCEPT !.pc = "done", !.resp = IF r.resp = "" THEN "ok" ELSE r.resp]
    ELSE r

\* HGETALL of one Maintenance.get of a list request, and its callback.
ListHgetall(s, id, fail) ==
    /\ reqs[s].type = "list" /\ reqs[s].pc = "map"
    /\ id \in reqs[s].todo
    /\ IF fail
         THEN /\ KvFails
              /\ reqs' = [reqs EXCEPT ![s] = ListAfter([@ EXCEPT !.todo = @ \ {id},
                                                                !.resp = "InternalError"])]
       ELSE LET data == HGetAll(<<reqs[s].user, id>>) IN
            /\ UNCHANGED kvErrs
            /\ IF assertRedisObject(data)
                 THEN reqs' = [reqs EXCEPT ![s] = ListAfter([@ EXCEPT !.todo = @ \ {id}])]
               ELSE IF \E d \in data : MaintenanceValid(d)
                 THEN reqs' = [reqs EXCEPT ![s] = ListAfter([@ EXCEPT !.todo = @ \ {id},
                                                                    !.got = @ \cup data])]
               ELSE reqs' = [reqs EXCEPT ![s].todo = @ \ {id}, ![s].bogus = @ \cup {id}]
    /\ UNCHANGED <<kvVars, now, tracked, orphans, schedPending, fireOps, issued>>
    /\ MtFrame

\* MULTI srem zrem del EXEC for a bogus window met by a list request.
ListFakeDel(s, id, fail) ==
    /\ reqs[s].type = "list" /\ reqs[s].pc = "map"
    /\ id \in reqs[s].bogus
    /\ IF fail
         THEN /\ KvFails
              /\ reqs' = [reqs EXCEPT ![s] = ListAfter([@ EXCEPT !.bogus = @ \ {id},
                                                                !.resp = "InternalError"])]
              /\ UNCHANGED <<maintSet, byEnd, hashes>>
       ELSE /\ KvDelete(<<reqs[s].user, id>>)
            /\ reqs' = [reqs EXCEPT ![s] = ListAfter([@ EXCEPT !.bogus = @ \ {id}])]
            /\ UNCHANGED kvErrs
    /\ UNCHANGED <<maintenanceIds, now, tracked, orphans, schedPending, fireOps, issued>>
    /\ MtFrame

\* The timers that are set.
Timers == tracked \cup DOMAIN orphans

\* Date.now() advances: by one tick, or, after the last tick, to the instant
\* the next timer is set for.  A tick is long: no redis command spans one.
\* No redis command is awaited.
KvIdle ==
    /\ \A s \in DOMAIN reqs : reqs[s].pc \in {"", "done"}
    /\ fireOps = EmptyBag
    /\ schedPending = 0

Tick ==
    /\ KvIdle
    /\ IF now < MaxTicks * TickMs
         THEN now' = now + TickMs
       ELSE /\ now' \in {t.fireAt : t \in Timers}
            /\ now' > now
            /\ \A t \in Timers : Due(t) \/ now' <= t.fireAt
    /\ UNCHANGED <<kvVars, tracked, orphans, schedPending, fireOps, kvErrs, rqVars>>
    /\ MtFrame

\* The timers scheduleNextMaintenanceExpiry sets when getRedisClient fails:
\* none, it logs and returns.
schedOnClientError == {}

\* ZRANGE maintenancesByEnd 0 0 WITHSCORES of scheduleNextMaintenanceExpiry and
\* its callback.  outcome: the redis client could not be had ("cerr"), the
\* command failed ("err"), or it replied ("ok").
SchedZrange(outcome) ==
    /\ schedPending > 0
    /\ schedPending' = schedPending - 1
    /\ CASE outcome = "cerr" ->
              /\ KvFails
              /\ orphans' = IF schedOnClientError = {} THEN orphans
                            ELSE BagAdd(orphans, RetryTimer)
              /\ UNCHANGED tracked
         [] outcome = "err" ->
              /\ KvFails
              /\ orphans' = BagAdd(orphans, RetryTimer)
              /\ UNCHANGED tracked
         [] outcome = "ok" ->
              /\ UNCHANGED kvErrs
              /\ IF ZRangeFirst = {}
                   THEN UNCHANGED <<tracked, orphans>>
                 ELSE LET k == CHOOSE x \in ZRangeFirst : TRUE IN
                      /\ tracked' = {ExpiryTimer(k, byEnd[k])}
                      /\ orphans' = IF tracked = {} THEN orphans
                                    ELSE BagAdd(orphans, CHOOSE t \in tracked : TRUE)
    /\ UNCHANGED <<kvVars, now, fireOps, rqVars>>
    /\ MtFrame

\* A fired expiry timer: Maintenance.get is sent for its window.
FireOp(k) == [key |-> k, pc |-> "hgetall", maint |-> {}]

\* The timer expiryTimeout refers to fires.
FireTracked ==
    /\ \E t \in tracked :
          /\ Due(t)
          /\ fireOps' = BagAdd(fireOps, FireOp(t.key))
    /\ tracked' = {}
    /\ UNCHANGED <<kvVars, now, orphans, schedPending, kvErrs, rqVars>>
    /\ MtFrame

\* A timer nothing refers to fires: an expiry timer that a later
\* `expiryTimeout = setTimeout(...)` left behind, or rescheduleLater's.
FireOrphan(t) ==
    /\ t \in DOMAIN orphans
    /\ Due(t)
    /\ orphans' = BagRemove(orphans, t)
    /\ IF t.kind = "retry"
         THEN ScheduleCalls(1) /\ UNCHANGED fireOps
       ELSE fireOps' = BagAdd(fireOps, FireOp(t.key)) /\ UNCHANGED <<tracked, schedPending>>
    /\ UNCHANGED <<kvVars, now, kvErrs, rqVars>>
    /\ MtFrame

\* HGETALL of the reaper's Maintenance.get and its callback.
FireHgetall(op, fail) ==
    /\ op \in DOMAIN fireOps /\ op.pc = "hgetall"
    /\ IF fail
         THEN /\ KvFails
              /\ fireOps' = BagRemove(fireOps, op)
              /\ orphans' = BagAdd(orphans, RetryTimer)
       ELSE LET data == HGetAll(op.key) IN
            /\ UNCHANGED <<kvErrs, orphans>>
            /\ fireOps' = BagAdd(BagRemove(fireOps, op),
                                 IF \E d \in data : MaintenanceValid(d)
                                   THEN [op EXCEPT !.pc = "del", !.maint = data]
                                 ELSE [op EXCEPT !.pc = "fakeDel"])
    /\ UNCHANGED <<kvVars, now, tracked, schedPending, rqVars>>
    /\ MtFrame

\* MULTI srem zrem del EXEC for a window the reaper found missing or bogus,
\* and its callback.
FireFakeDel(op, fail) ==
    /\ op \in DOMAIN fireOps /\ op.pc = "fakeDel"
    /\ fireOps' = BagRemove(fireOps, op)
    /\ IF fail
         THEN /\ KvFails
              /\ orphans' = BagAdd(orphans, RetryTimer)
              /\ UNCHANGED <<maintSet, byEnd, hashes, tracked, schedPending>>
       ELSE /\ KvDelete(op.key)
            /\ ScheduleCalls(1)
            /\ UNCHANGED <<kvErrs, orphans>>
    /\ UNCHANGED <<maintenanceIds, now, rqVars>>
    /\ MtFrame

\* MULTI srem zrem del EXEC of the reaper's deleteMaintenance and its
\* callbacks: handleMaintenanceEnd's callback pokes the reaper, and so does
\* the reaper's own.
FireDel(op, fail) ==
    /\ op \in DOMAIN fireOps /\ op.pc = "del"
    /\ fireOps' = BagRemove(fireOps, op)
    /\ IF fail
         THEN /\ KvFails
              /\ ScheduleCalls(1)
              /\ UNCHANGED <<maintSet, byEnd, hashes>>
       ELSE /\ KvDelete(op.key)
            /\ ScheduleCalls(2)
            /\ UNCHANGED kvErrs
    /\ UNCHANGED <<maintenanceIds, now, orphans, rqVars>>
    /\ MtFrame

Slots == 1..MaxReqs

\* The master starts on an empty store: scheduleNextMaintenanceExpiry has been
\* called once.
MaintInit ==
    /\ StoreEmpty
    /\ now = TickMs
    /\ tracked = {}
    /\ orphans = EmptyBag
    /\ schedPending = 1
    /\ fireOps = EmptyBag
    /\ kvErrs = 0
    /\ reqs = [s \in 1..MaxReqs |-> IdleReq]
    /\ issued = [u \in Users |-> [n \in 1..maintenanceIds[u] |-> n]]
    /\ EvInit /\ PdIdle /\ AuxIdle

MaintNext ==
    \/ \E s \in Slots, u \in Users, o \in CreateOpts : StartCreate(s, u, o)
    \/ \E s \in Slots, fail \in BOOLEAN : CreateHincrby(s, fail)
    \/ \E s \in Slots, fail \in BOOLEAN : CreateMulti(s, fail)
    \/ \E s \in Slots, type \in {"get", "delete"}, u \in Users, id \in 1..MaxId :
          StartGetOrDelete(s, type, u, id)
    \/ \E s \in Slots, fail \in BOOLEAN : ReqHgetall(s, fail)
    \/ \E s \in Slots, fail \in BOOLEAN : ReqFakeDel(s, fail)
    \/ \E s \in Slots, fail \in BOOLEAN : ReqHget(s, fail)
    \/ \E s \in Slots, fail \in BOOLEAN, endErr \in BOOLEAN : ReqDelMulti(s, fail, endErr)
    \/ \E s \in Slots, u \in Users : StartList(s, u)
    \/ \E s \in Slots, fail \in BOOLEAN : ListSmembers(s, fail)
    \/ \E s \in Slots, id \in 1..MaxId, fail \in BOOLEAN : ListHgetall(s, id, fail)
    \/ \E s \in Slots, id \in 1..MaxId, fail \in BOOLEAN : ListFakeDel(s, id, fail)
    \/ Tick
    \/ \E outcome \in {"cerr", "err", "ok"} : SchedZrange(outcome)
    \/ FireTracked
    \/ \E t \in DOMAIN orphans : FireOrphan(t)
    \/ \E op \in DOMAIN fireOps, fail \in BOOLEAN : FireHgetall(op, fail)
    \/ \E op \in DOMAIN fireOps, fail \in BOOLEAN : FireFakeDel(op, fail)
    \/ \E op \in DOMAIN fireOps, fail \in BOOLEAN : FireDel(op, fail)

Spec == MaintInit /\ [][MaintNext]_vars

----------------------------------------------------------------------------
\* isEventInMaintenance, applied to a store of valid windows.

\* The scopes a window can carry: exactly one of all, probes, probeGroups,
\* machines.
Scopes ==
    {[all |-> TRUE, probes |-> {}, probeGroups |-> {}, machines |-> {}]}
    \cup {[all |-> FALSE, probes |-> {a}, probeGroups |-> {}, machines |-> {}] :
            a \in {{"p1"}, {"p2"}}}
    \cup {[all |-> FALSE, probes |-> {}, probeGroups |-> {a}, machines |-> {}] :
            a \in {{"g1"}, {}}}
    \cup {[all |-> FALSE, probes |-> {}, probeGroups |-> {}, machines |-> {a}] :
            a \in {{"m1", "m2"}, {"m2"}}}

\* The windows that may be stored under key <<u, i>>.
WindowsAt(u, i) ==
    {Win(u, i, se[1] * TickMs, se[2] * TickMs, sc.all, sc.probes, sc.probeGroups, sc.machines) :
        se \in {<<1, 3>>, <<2, 3>>}, sc \in IF u = "u1" THEN Scopes ELSE {CHOOSE x \in Scopes : x.all}}

PredKeys == {<<"u1", 1>>, <<"u1", 2>>, <<"u2", 1>>}

PredEvents ==
    {[wf |-> TRUE, user |-> "u1", time |-> t * TickMs, probeUuid |-> p, machine |-> m] :
        t \in 1..MaxTicks, p \in {{}, {"p1"}}, m \in {{}, {"m1"}}}

\* A store of valid windows, and the event and probe group of the call.
PredInit ==
    /\ \E ks \in SUBSET PredKeys :
          /\ hashes \in [ks -> UNION {WindowsAt(k[1], k[2]) : k \in ks}]
          /\ \A k \in ks : KeyOf(hashes[k]) = k
          /\ byEnd = [k \in ks |-> hashes[k].end]
          /\ maintSet = [u \in Users |-> {k[2] : k \in {x \in ks : x[1] = u}}]
          /\ maintenanceIds = [u \in Users |-> MaxId]
    /\ pdIn \in {[event |-> e, probeGroup |-> g] : e \in PredEvents, g \in {{}, {"g1"}}}
    /\ pdOut = {}
    /\ RpIdle /\ RqIdle /\ EvInit /\ AuxIdle

\* isEventInMaintenance(options, callback): listMaintenances yields the windows
\* of event.user in the order SMEMBERS gave their ids.
IsEventInMaintenanceCall ==
    /\ pdOut = {}
    /\ \E listed \in Perms(StoredOf(pdIn.event.user)) :
          pdOut' = {[maint |-> isEventInMaintenance(listed, pdIn.event, pdIn.probeGroup)]}
    /\ UNCHANGED <<pdIn, kvVars, rpVars, rqVars, evVars, auxVars>>

SpecPred == PredInit /\ [][IsEventInMaintenanceCall]_vars

\* The window covers the event: the claim's condition.
Covers(w, e, g) ==
    /\ w.start < e.time /\ e.time < w.end
    /\ \/ w.all
       \/ \E a \in w.probeGroups : \E x \in g : x \in a
       \/ \E a \in w.probes : \E x \in e.probeUuid : x \in a
       \/ \E a \in w.machines : \E x \in e.machine : x \in a

\* C6: isEventInMaintenance returns a window iff some window of the event's
\* user covers the event (start < time < end, and all or the probe group, the
\* probe or the machine is in scope); what it returns is such a window of that
\* user, and it returns null when there is none.
C6_InMaintenanceIffCovered ==
    \A r \in pdOut :
        LET e == pdIn.event
            g == pdIn.probeGroup
        IN /\ (r.maint # {}) <=> (\E w \in StoredOf(e.user) : Covers(w, e, g))
           /\ \A w \in r.maint :
                 w \in StoredOf(e.user) /\ w.user = e.user /\ Covers(w, e, g)

\* The call returned a window matched by its machines while another user's
\* window covering the event's time is stored, and a window of the user that
\* does not cover the event was passed over.
C6_Witness ==
    \E r \in pdOut : \E w \in r.maint :
        /\ ~w.all /\ w.machines # {}
        /\ \E k \in DOMAIN hashes : k[1] # pdIn.event.user
        /\ \E v \in StoredOf(pdIn.event.user) : ~Covers(v, pdIn.event, pdIn.probeGroup)

----------------------------------------------------------------------------
\* Properties of the event router (checked under SpecEvents).

\* No call of an event's processEvent, and none of its contacts, is in flight.
EvQuiescent ==
    \A i \in DOMAIN evs :
        /\ evs[i].pc # "monitorGet"
        /\ \A j \in DOMAIN evs[i].cpc : evs[i].cpc[j] = "done"

\* Some order of the event's user's windows makes isEventInMaintenance yield
\* a window.
EventInMaintenance(e) ==
    \E ord \in Perms(StoredOf(e.user)) : isEventInMaintenance(ord, e, {}) # {}

\* C1: an event for which isEventInMaintenance yields a maintenance window
\* causes no call of a notification plugin's notify().
C1_SuppressedEventNotifiesNobody ==
    \A i \in DOMAIN evs :
        EventInMaintenance(evBody[i]) => SeqSum(evs[i].notified) = 0

\* C7: once addEvents has run, every event of the batch has been handed to
\* processEvent exactly once, and when nothing is in flight any more every
\* event has run to completion (its callback was called once).
C7_EveryEventProcessedOnce ==
    evPc # "idle" =>
        /\ \A i \in DOMAIN evs : evs[i].handed = 1
        /\ EvQuiescent => \A i \in DOMAIN evs : evs[i].cbs = 1

\* The errors of the events that failed, in the order of completion.
EvFailed == {i \in DOMAIN evs : evs[i].err # 0 \/ evs[i].pc = "threw"}

\* C8: POST /events sends exactly one reply, only after every event has
\* completed: 202 when none failed, the error when one failed, a MultiError of
\* all the errors when two or more failed.
C8_ExactlyOneAggregatedReply ==
    /\ Len(evReplies) <= 1
    /\ evReplies # <<>> =>
          /\ \A i \in DOMAIN evs : evs[i].cbs = 1
          /\ evReplies[1].kind =
                IF EvFailed = {} THEN "Accepted"
                ELSE IF Cardinality(EvFailed) = 1 THEN "error" ELSE "MultiError"
          /\ {evReplies[1].errs[k] : k \in DOMAIN evReplies[1].errs} = EvFailed
    /\ (evPc # "idle" /\ EvQuiescent) => Len(evReplies) = 1

\* C9: a failing notify() or a contact that does not resolve never makes
\* processEvent report an error: when processEvent has called back for an
\* event whose monitor was loaded, it reported success and every contact of
\* the monitor has been attempted.
C9_ContactFailuresAbsorbed ==
    \A i \in DOMAIN evs :
        (evs[i].cbs >= 1 /\ evs[i].loaded) =>
            /\ evs[i].cbs = 1
            /\ evs[i].err = 0
            /\ \A k \in DOMAIN evErrs : evErrs[k] # i
            /\ \A j \in DOMAIN evs[i].cpc : evs[i].cpc[j] = "done"

\* An event completed with success although one contact did not resolve and
\* the notify() of another failed.
C9_Witness ==
    \E i \in DOMAIN evs :
        /\ evs[i].cbs = 1 /\ evs[i].loaded /\ evs[i].err = 0
        /\ \E j, k \in DOMAIN evs[i].res :
              evs[i].res[j] = "resolveErr" /\ evs[i].res[k] = "notifyErr"

MaintFairness ==
    /\ WF_vars(\E s \in Slots, fail \in BOOLEAN : CreateHincrby(s, fail))
    /\ WF_vars(\E s \in Slots, fail \in BOOLEAN : CreateMulti(s, fail))
    /\ WF_vars(\E s \in Slots, fail \in BOOLEAN : ReqHgetall(s, fail))
    /\ WF_vars(\E s \in Slots, fail \in BOOLEAN : ReqFakeDel(s, fail))
    /\ WF_vars(\E s \in Slots, fail \in BOOLEAN : ReqHget(s, fail))
    /\ WF_vars(\E s \in Slots, fail \in BOOLEAN, endErr \in BOOLEAN : ReqDelMulti(s, fail, endErr))
    /\ WF_vars(\E s \in Slots, fail \in BOOLEAN : ListSmembers(s, fail))
    /\ WF_vars(\E s \in Slots, id \in 1..MaxId, fail \in BOOLEAN : ListHgetall(s, id, fail))
    /\ WF_vars(\E s \in Slots, id \in 1..MaxId, fail \in BOOLEAN : ListFakeDel(s, id, fail))
    /\ WF_vars(Tick)
    /\ WF_vars(\E outcome \in {"cerr", "err", "ok"} : SchedZrange(outcome))
    /\ WF_vars(FireTracked)
    /\ WF_vars(\E t \in DOMAIN orphans : FireOrphan(t))
    /\ WF_vars(\E op \in DOMAIN fireOps, fail \in BOOLEAN : FireHgetall(op, fail))
    /\ WF_vars(\E op \in DOMAIN fireOps, fail \in BOOLEAN : FireFakeDel(op, fail))
    /\ WF_vars(\E op \in DOMAIN fireOps, fail \in BOOLEAN : FireDel(op, fail))

SpecLive == MaintInit /\ [][MaintNext]_vars /\ MaintFairness

----------------------------------------------------------------------------
\* Claims about the maintenance engine.

InSet(k) == k[2] \in maintSet[k[1]]
InIndex(k) == k \in DOMAIN byEnd
HasHash(k) == k \in DOMAIN hashes
IssuedIds(u) == {issued[u][n] : n \in DOMAIN issued[u]}

\* C2: in every reachable state of the store, whatever creates, deletes, gets,
\* lists and reaper firings interleaved, id i is in maintenances:U iff
\* maintenance:U:i is in maintenancesByEnd iff the hash maintenance:U:i is
\* non-empty.
C2_ThreeStructuresAgree ==
    \A k \in Keys : (InSet(k) <=> InIndex(k)) /\ (InIndex(k) <=> HasHash(k))

\* A create stored a window, which has been removed again, while another one
\* is stored.
C2_Witness ==
    \E k \in Keys, x \in Keys :
        /\ \E s \in Slots : /\ reqs[s].type = "create" /\ reqs[s].resp = "ok"
                            /\ k = <<reqs[s].user, reqs[s].id>>
        /\ ~InSet(k) /\ ~InIndex(k) /\ ~HasHash(k)
        /\ InSet(x) /\ InIndex(x) /\ HasHash(x)

\* C3: for every user the ids that successful createMaintenance calls return
\* are pairwise distinct and strictly increasing in the order HINCRBY
\* allocated them, also for concurrent creates and after earlier windows were
\* deleted or reaped.
C3_IdsDistinctIncreasing ==
    /\ \A u \in Users : \A i, j \in DOMAIN issued[u] :
          i < j => issued[u][i] < issued[u][j]
    /\ \A s \in Slots :
          reqs[s].type = "create" /\ reqs[s].resp = "ok"
             => reqs[s].id \in IssuedIds(reqs[s].user)
    /\ \A s, t \in Slots :
          /\ s # t
          /\ reqs[s].type = "create" /\ reqs[t].type = "create"
          /\ reqs[s].user = reqs[t].user
          /\ reqs[s].resp = "ok" /\ reqs[t].resp = "ok"
          => reqs[s].id # reqs[t].id

\* Two creates of one user succeeded, and the window of the first is gone.
C3_Witness ==
    \E s, t \in Slots :
        /\ s # t
        /\ reqs[s].type = "create" /\ reqs[t].type = "create"
        /\ reqs[s].user = reqs[t].user
        /\ reqs[s].resp = "ok" /\ reqs[t].resp = "ok"
        /\ ~HasHash(<<reqs[s].user, reqs[s].id>>)
        /\ HasHash(<<reqs[t].user, reqs[t].id>>)

\* C4: a GET or DELETE for an absent window answers ResourceNotFound only when
\* the id had never been issued to the user, and Gone only for an issued id:
\* a request for an id issued before it never answers ResourceNotFound.
C4_GoneIffIssued ==
    \A s \in Slots :
        reqs[s].type \in {"get", "delete"} =>
            /\ reqs[s].resp = "ResourceNotFound" => ~reqs[s].issuedBefore
            /\ reqs[s].resp = "Gone" => reqs[s].id \in IssuedIds(reqs[s].user)
            /\ reqs[s].issuedBefore /\ reqs[s].resp \in {"Gone", "ResourceNotFound"}
                  => reqs[s].resp = "Gone"

\* A request for an id that was issued before, whose window is absent, was
\* answered Gone.
C4_Witness ==
    \E s \in Slots :
        /\ reqs[s].type \in {"get", "delete"}
        /\ reqs[s].issuedBefore
        /\ reqs[s].resp = "Gone"
        /\ ~HasHash(<<reqs[s].user, reqs[s].id>>)

\* C5: with the reaper started and redis commands failing only finitely often,
\* every window whose end is at or before the current time is eventually
\* removed from the set, the index and its hash, without any DELETE request.
C5_ExpiredWindowsAreReaped ==
    \A k \in Keys :
        (InIndex(k) /\ byEnd[k] <= now) ~> (~InSet(k) /\ ~InIndex(k) /\ ~HasHash(k))

----------------------------------------------------------------------------
\* The response cache (App.prototype.cacheGet, cacheSet, cacheInvalidatePut,
\* cacheInvalidateDelete) around one probe of the directory, and the read and
\* write handlers that use it.

MaxReads == 2
MaxWrites == 2

PdFrame == UNCHANGED <<kvVars, rpVars, rqVars, evVars, pdVars>>

\* App.prototype.cacheGet: the hit, {} for a miss.
cacheGet(c, scope) == IF ~c.on THEN {} ELSE c[scope]

\* App.prototype.cacheSet.
cacheSet(c, scope, value) == IF ~c.on THEN c ELSE [c EXCEPT ![scope] = {value}]

\* App.prototype.cacheInvalidatePut for modelName = "Probe": the List cache
\* is reset, the Get entry of the dn and the headAgentProbes entry of the
\* zone are deleted.
cacheInvalidatePut(c) ==
    IF ~c.on THEN c ELSE [c EXCEPT !.List = {}, !.Get = {}, !.head = {}]

\* App.prototype.cacheInvalidateDelete for modelName = "Probe".
cacheInvalidateDelete(c) ==
    IF ~c.on THEN c ELSE [c EXCEPT !.List = {}, !.Get = {}, !.head = {}]

ReadScopes == {"List", "Get", "head"}

IdleRead == [scope |-> "Get", pc |-> "idle", val |-> {}, floor |-> 0, hit |-> FALSE]
IdleWrite == [kind |-> "put", pc |-> "idle", ver |-> 0]

\* A read request arrives: it is answered from the cache on a hit, else the
\* directory is asked.
ReadStart(r, scope) ==
    /\ rd[r].pc = "idle"
    /\ LET hit == cacheGet(cch, scope) IN
       rd' = [rd EXCEPT ![r] =
                 IF hit # {}
                   THEN [scope |-> scope, pc |-> "done", val |-> hit, floor |-> acked,
                         hit |-> TRUE]
                 ELSE [scope |-> scope, pc |-> "lookup", val |-> {}, floor |-> acked,
                       hit |-> FALSE]]
    /\ UNCHANGED <<dirVal, cch, wr, acked, suVars, azVars, ivVars>>
    /\ PdFrame

\* The directory answers the search of a read.
ReadLookup(r) ==
    /\ rd[r].pc = "lookup"
    /\ rd' = [rd EXCEPT ![r].pc = "got", ![r].val = {dirVal}]
    /\ UNCHANGED <<dirVal, cch, wr, acked, suVars, azVars, ivVars>>
    /\ PdFrame

\* The callback of the search: the result is stored with cacheSet and sent.
ReadCallback(r) ==
    /\ rd[r].pc = "got"
    /\ cch' = cacheSet(cch, rd[r].scope, CHOOSE v \in rd[r].val : TRUE)
    /\ rd' = [rd EXCEPT ![r].pc = "done"]
    /\ UNCHANGED <<dirVal, wr, acked, suVars, azVars, ivVars>>
    /\ PdFrame

\* A write request (put or delete) arrives, validated and authorized: the
\* directory is asked to persist it.
WriteStart(w, kind) ==
    /\ wr[w].pc = "idle"
    /\ wr' = [wr EXCEPT ![w] = [kind |-> kind, pc |-> "sent", ver |-> 0]]
    /\ UNCHANGED <<dirVal, cch, rd, acked, suVars, azVars, ivVars>>
    /\ PdFrame

\* The directory persists the write.
WriteApply(w) ==
    /\ wr[w].pc = "sent"
    /\ dirVal' = dirVal + 1
    /\ wr' = [wr EXCEPT ![w].pc = "applied", ![w].ver = dirVal + 1]
    /\ UNCHANGED <<cch, rd, acked, suVars, azVars, ivVars>>
    /\ PdFrame

\* The callback of the write: the caches are invalidated, then the response
\* is sent.
WriteCallback(w) ==
    /\ wr[w].pc = "applied"
    /\ cch' = IF wr[w].kind = "put" THEN cacheInvalidatePut(cch)
              ELSE cacheInvalidateDelete(cch)
    /\ acked' = Max(acked, wr[w].ver)
    /\ wr' = [wr EXCEPT ![w].pc = "done"]
    /\ UNCHANGED <<dirVal, rd, suVars, azVars, ivVars>>
    /\ PdFrame

CacheInit ==
    /\ dirVal = 0
    /\ cch \in {[on |-> o, List |-> {}, Get |-> {}, head |-> {}] : o \in BOOLEAN}
    /\ rd = [r \in 1..MaxReads |-> IdleRead]
    /\ wr = [w \in 1..MaxWrites |-> IdleWrite]
    /\ acked = 0
    /\ SuIdle /\ AzIdle /\ IvIdle
    /\ StoreEmpty /\ RpIdle /\ RqIdle /\ PdIdle /\ EvInit

CacheNext ==
    \/ \E r \in 1..MaxReads, scope \in ReadScopes : ReadStart(r, scope)
    \/ \E r \in 1..MaxReads : ReadLookup(r)
    \/ \E r \in 1..MaxReads : ReadCallback(r)
    \/ \E w \in 1..MaxWrites, kind \in {"put", "delete"} : WriteStart(w, kind)
    \/ \E w \in 1..MaxWrites : WriteApply(w)
    \/ \E w \in 1..MaxWrites : WriteCallback(w)

SpecCache == CacheInit /\ [][CacheNext]_vars

\* C11: a read issued after a write was answered returns data that reflects
\* the write, and no cache entry holds a value older than the latest answered
\* write.
C11_ReadAfterWriteCoherent ==
    /\ \A r \in DOMAIN rd :
          rd[r].pc = "done" => \A v \in rd[r].val : v >= rd[r].floor
    /\ \A scope \in ReadScopes : \A v \in cch[scope] : v >= acked

----------------------------------------------------------------------------
\* Request pre-processing: setup, the one handler of the `before` chain of
\* every route, and App.prototype.userFromId with the user cache.

MaxSetups == 2

\* The value of :user in the request: a UUID or a login of the user "a", the
\* UUID of nobody, or a string that is neither a UUID nor a legal login.
SetupIds == {"uuid-a", "login-a", "uuid-x", "bad id"}

UUID_REGEX_test(s) == s \in {"uuid-a", "uuid-x"}

\* VALID_LOGIN_CHARS.test coerces its argument to a string: null is tested
\* as "null", which matches.
VALID_LOGIN_CHARS_test(s) == s \in {"login-a", "null"}

UserA == [uuid |-> "uuid-a", login |-> "login-a"]

\* The entries of the directory a search for userId can return.
UsersMatching(userId) == IF userId \in {"uuid-a", "login-a"} THEN {UserA} ELSE {}

\* What ufds.search can come back with: an error, an end with a non-zero
\* status, or an end after zero, one or several entries.
SearchOutcomes(userId) ==
    {"err", "status", "none", "many"}
        \cup (IF UsersMatching(userId) # {} THEN {"one"} ELSE {})

IdleSetup ==
    [userId |-> {}, pc |-> "idle", user |-> {}, sent |-> "", reported |-> "",
     ranMain |-> FALSE]

SuFrame == PdFrame /\ UNCHANGED <<cacheVars, azVars, ivVars>>

\* The chain of a route is [setup], the route's handler, [restify.log.w3c]:
\* next() runs the route's handler unless a response was already sent, and
\* the `after` chain in every case.
next(req) == [req EXCEPT !.pc = IF req.sent # "" THEN "post" ELSE "main"]

setupCallbackSilent(req, err, user) ==
    next(IF err # "" THEN [req EXCEPT !.sent = err, !.reported = "err"]
         ELSE IF user = {} THEN [req EXCEPT !.reported = "nouser"]
         ELSE [req EXCEPT !.user = user, !.reported = "user"])

\* The callback setup hands to userFromId.
setupCallback(req, err, user) ==
    next(IF err # "" THEN [req EXCEPT !.sent = err, !.reported = "err"]
         ELSE IF user = {}
           THEN [req EXCEPT !.sent = "ResourceNotFound", !.reported = "nouser"]
         ELSE [req EXCEPT !.user = user, !.reported = "user"])

cacheAndCallbackIdOnly(cache, userId, err, user) ==
    [cache EXCEPT ![userId] = {[err |-> err, user |-> user]}]

\* cacheAndCallback of userFromId: what the user cache holds afterwards.
cacheAndCallback(cache, userId, err, user) ==
    LET obj == [err |-> err, user |-> user] IN
    IF user # {}
      THEN LET u == CHOOSE x \in user : TRUE IN
           [cache EXCEPT ![u.uuid] = {obj}, ![u.login] = {obj}]
    ELSE [cache EXCEPT ![userId] = {obj}]

\* setup is called for a request.  Without :user it calls next() at once.  With
\* :user, userFromId answers from the user cache, or rejects an id that is
\* neither a UUID nor a login, or searches the directory.
Setup(r, userId) ==
    /\ suIn[r].pc = "idle"
    /\ \A q \in 1..(r - 1) : suIn[q].pc # "idle"
    /\ LET req == [suIn[r] EXCEPT !.userId = userId] IN
       IF userId = {} THEN suIn' = [suIn EXCEPT ![r] = next(req)]
       ELSE LET id == CHOOSE x \in userId : TRUE
                cached == suOut[id]
                login == "null" IN
            IF cached # {}
              THEN LET c == CHOOSE x \in cached : TRUE IN
                   suIn' = [suIn EXCEPT ![r] =
                               IF c.err # "" THEN setupCallback(req, c.err, {})
                               ELSE setupCallback(req, "", c.user)]
            ELSE IF UUID_REGEX_test(id) \/ VALID_LOGIN_CHARS_test(login)
              THEN suIn' = [suIn EXCEPT ![r] = [req EXCEPT !.pc = "search"]]
            ELSE suIn' = [suIn EXCEPT ![r] =
                             setupCallback(req, "InvalidArgument", {})]
    /\ UNCHANGED suOut
    /\ SuFrame

\* The directory answers the search of userFromId.
SetupSearchReply(r, outcome) ==
    /\ suIn[r].pc = "search"
    /\ LET id == CHOOSE x \in suIn[r].userId : TRUE
           err == CASE outcome = "err" -> "LdapError"
                    [] outcome = "status" -> "non-zero status from LDAP search"
                    [] outcome = "many" -> "InternalError"
                    [] OTHER -> ""
           user == IF outcome = "one" THEN UsersMatching(id) ELSE {} IN
       /\ outcome \in SearchOutcomes(id)
       /\ suOut' = cacheAndCallback(suOut, id, err, user)
       /\ suIn' = [suIn EXCEPT ![r] = setupCallback(suIn[r], err, user)]
    /\ SuFrame

\* The route's handler runs: it reads req._user and sends its response.
SetupMain(r) ==
    /\ suIn[r].pc = "main"
    /\ suIn' = [suIn EXCEPT ![r].pc = "post", ![r].ranMain = TRUE,
                            ![r].sent = IF suIn[r].sent = "" THEN "200"
                                        ELSE suIn[r].sent]
    /\ UNCHANGED suOut
    /\ SuFrame

\* The `after` chain (restify.log.w3c) runs.
SetupPost(r) ==
    /\ suIn[r].pc = "post"
    /\ suIn' = [suIn EXCEPT ![r].pc = "done"]
    /\ UNCHANGED suOut
    /\ SuFrame

\* An entry of the user cache expires.
UserCacheExpire(id) ==
    /\ suOut[id] # {}
    /\ suOut' = [suOut EXCEPT ![id] = {}]
    /\ UNCHANGED suIn
    /\ SuFrame

SetupInit ==
    /\ suIn = [r \in 1..MaxSetups |-> IdleSetup]
    /\ suOut = [id \in SetupIds |-> {}]
    /\ CacheIdle /\ AzIdle /\ IvIdle
    /\ StoreEmpty /\ RpIdle /\ RqIdle /\ PdIdle /\ EvInit

SetupNext ==
    \/ \E r \in 1..MaxSetups, userId \in {{}} \cup {{id} : id \in SetupIds} :
          Setup(r, userId)
    \/ \E r \in 1..MaxSetups, outcome \in {"err", "status", "none", "one", "many"} :
          SetupSearchReply(r, outcome)
    \/ \E r \in 1..MaxSetups : SetupMain(r)
    \/ \E r \in 1..MaxSetups : SetupPost(r)
    \/ \E id \in SetupIds : UserCacheExpire(id)

SpecSetup == SetupInit /\ [][SetupNext]_vars

----------------------------------------------------------------------------
\* Probe write and delete authorization: Probe.create's _skipauthz,
\* Probe.validate's agent/machine rule, Probe.prototype.authorizeWrite and
\* Probe.prototype.authorizeDelete, against a fixed inventory.

adminUuid == "admin"
Operators == {"admin", "op"}
Actors == {"admin", "op", "u1"}
Servers == {"srv"}
\* The owner of each virtual machine.
VmOwner == [vmA |-> "u1", vmB |-> "u2"]
Vms == DOMAIN VmOwner
\* UUIDs a probe can name: the server, the two VMs, and a UUID of nothing.
MachineUuids == {"srv", "vmA", "vmB", "nil"}

\* plugins[type]: the flags of the probe types.
plugins ==
    [local  |-> [runLocally |-> TRUE,  runInVmHost |-> FALSE],
     vmhost |-> [runLocally |-> FALSE, runInVmHost |-> TRUE],
     remote |-> [runLocally |-> FALSE, runInVmHost |-> FALSE]]

\* The length of a probe name that the checks compare with.
ProbeNameMax == 512

\* The lengths of the names of the probes: one below, at and one above the
\* limit.
NameLens == {ProbeNameMax - 1, ProbeNameMax, ProbeNameMax + 1}

ProbeData ==
    [user : Actors, type : DOMAIN plugins, agent : MachineUuids,
     machine : MachineUuids, skipauthz : BOOLEAN, nameLen : NameLens]

\* The basic validation of Probe.create: assert.ok(data.name.length < 512).
createNameOk(data) == data.nameLen < ProbeNameMax

\* Probe.validate: a runLocally probe whose agent and machine differ is
\* invalid, and so is a name longer than 512.
ProbeValid(data) ==
    /\ plugins[data.type].runLocally => data.agent = data.machine
    /\ ~(data.nameLen > ProbeNameMax)

skipauthzAnyOwner(data) == data.skipauthz

\* probe._skipauthz as Probe.create sets it.
skipauthzOf(data) == IF data.skipauthz THEN data.user = adminUuid ELSE FALSE

serverExistsNever(uuid) == FALSE

\* app.serverExists answering without error.
serverExists(uuid) == uuid \in Servers

\* app.vmapiClient.getVm({uuid, owner_uuid}) answering a VM (TRUE) or 404.
getVmOwned(uuid, owner) == uuid \in Vms /\ VmOwner[uuid] = owner

\* app.vmapiClient.getVm({uuid}) answering a VM (TRUE) or ResourceNotFound.
getVm(uuid) == uuid \in Vms

IdleAuthz ==
    [pc |-> "idle", op |-> "", data |-> {}, skip |-> FALSE, calls |-> {},
     errs |-> {}, loaded |-> FALSE]

AzFrame == PdFrame /\ UNCHANGED <<cacheVars, suVars, ivVars>>

AzProbe == CHOOSE d \in azIn.data : TRUE

\* A lookup is made: it is recorded, with whether it failed for a reason
\* other than not-found.
AzLookup(name, outcome, pc) ==
    azIn' = [azIn EXCEPT !.pc = pc,
                         !.calls = @ \cup {name},
                         !.errs = IF outcome = "err" THEN @ \cup {name} ELSE @]

\* Probe.create: the basic validation, the Probe constructor with
\* Probe.validate, then _skipauthz.
ProbeCreate(data) ==
    /\ azIn.pc = "idle"
    /\ IF ~createNameOk(data)
         THEN /\ azIn' = [azIn EXCEPT !.pc = "done", !.op = "create", !.data = {data}]
              /\ azOut' = "AssertionError"
       ELSE IF ProbeValid(data)
         THEN /\ azIn' = [azIn EXCEPT !.pc = "created", !.data = {data},
                                      !.skip = skipauthzOf(data)]
              /\ UNCHANGED azOut
       ELSE /\ azIn' = [azIn EXCEPT !.pc = "done", !.op = "create", !.data = {data}]
            /\ azOut' = "InvalidArgument"
    /\ AzFrame

\* A stored probe is loaded: the Probe constructor with Probe.validate; the
\* stored data holds no skipauthz.
ProbeLoad(data) ==
    /\ azIn.pc = "idle"
    /\ ~data.skipauthz
    /\ IF ProbeValid(data)
         THEN /\ azIn' = [azIn EXCEPT !.pc = "created", !.data = {data}, !.loaded = TRUE]
              /\ UNCHANGED azOut
       ELSE /\ azIn' = [azIn EXCEPT !.pc = "done", !.op = "load", !.data = {data},
                                    !.loaded = TRUE]
            /\ azOut' = "InvalidArgument"
    /\ AzFrame

\* authorizeWrite up to the call of app.serverExists.
AuthorizeWrite ==
    /\ azIn.pc = "created"
    /\ IF azIn.skip
         THEN /\ azOut' = "authorized"
              /\ azIn' = [azIn EXCEPT !.pc = "done", !.op = "write"]
       ELSE /\ azIn' = [azIn EXCEPT !.pc = "serverExists", !.op = "write"]
            /\ UNCHANGED azOut
    /\ AzFrame

\* 1. The callback of app.serverExists(this.agent).
ServerExistsReply(outcome) ==
    /\ azIn.pc = "serverExists"
    /\ IF outcome = "err"
         THEN /\ AzLookup("serverExists", outcome, "done")
              /\ azOut' = "InternalError"
       ELSE /\ AzLookup("serverExists", outcome,
                        IF serverExists(AzProbe.agent) THEN "isOperator"
                        ELSE "getVmOwned")
            /\ UNCHANGED azOut
    /\ AzFrame

\* 1. The callback of app.isOperator for a probe on a physical server.
IsOperatorReply(outcome) ==
    /\ azIn.pc = "isOperator"
    /\ AzLookup("isOperator", outcome, "done")
    /\ azOut' = IF outcome = "err" THEN "InternalError"
                ELSE IF AzProbe.user \notin Operators THEN "InvalidArgument"
                ELSE "authorized"
    /\ AzFrame

\* 2. The callback of getVm({uuid: this.agent, owner_uuid: this.user}); on a
\* 404, isRunInVmHostOrErr, the first of the conditions of 3.
GetVmOwnedReply(outcome) ==
    /\ azIn.pc = "getVmOwned"
    /\ IF outcome = "err"
         THEN /\ AzLookup("getVmOwned", outcome, "done")
              /\ azOut' = "InternalError"
       ELSE IF getVmOwned(AzProbe.agent, AzProbe.user)
         THEN /\ AzLookup("getVmOwned", outcome, "done")
              /\ azOut' = "authorized"
       ELSE IF ~plugins[AzProbe.type].runInVmHost
         THEN /\ AzLookup("getVmOwned", outcome, "done")
              /\ azOut' = "InvalidArgument"
       ELSE /\ AzLookup("getVmOwned", outcome, "isExistingVm")
            /\ UNCHANGED azOut
    /\ AzFrame

\* 3. isExistingVmOrErr: the callback of getVm({uuid: this.machine}).
IsExistingVmReply(outcome) ==
    /\ azIn.pc = "isExistingVm"
    /\ IF outcome = "ok" /\ getVm(AzProbe.machine)
         THEN /\ AzLookup("isExistingVm", outcome, "userIsOperator")
              /\ UNCHANGED azOut
       ELSE /\ AzLookup("isExistingVm", outcome, "done")
            /\ azOut' = "InvalidArgument"
    /\ AzFrame

\* 3. userIsOperatorOrErr: the callback of app.isOperator.
UserIsOperatorReply(outcome) ==
    /\ azIn.pc = "userIsOperator"
    /\ AzLookup("userIsOperator", outcome, "done")
    /\ azOut' = IF outcome = "ok" /\ AzProbe.user \in Operators THEN "authorized"
                ELSE "InvalidArgument"
    /\ AzFrame

\* authorizeDelete: it throws.
AuthorizeDelete ==
    /\ azIn.pc = "created"
    /\ azIn' = [azIn EXCEPT !.pc = "done", !.op = "delete"]
    /\ azOut' = "throws"
    /\ AzFrame

AuthzInit ==
    /\ azIn = IdleAuthz
    /\ azOut = ""
    /\ CacheIdle /\ SuIdle /\ IvIdle
    /\ StoreEmpty /\ RpIdle /\ RqIdle /\ PdIdle /\ EvInit

AuthzNext ==
    \/ \E data \in ProbeData : ProbeCreate(data)
    \/ \E data \in ProbeData : ProbeLoad(data)
    \/ AuthorizeWrite
    \/ \E outcome \in {"ok", "err"} : ServerExistsReply(outcome)
    \/ \E outcome \in {"ok", "err"} : IsOperatorReply(outcome)
    \/ \E outcome \in {"ok", "err"} : GetVmOwnedReply(outcome)
    \/ \E outcome \in {"ok", "err"} : IsExistingVmReply(outcome)
    \/ \E outcome \in {"ok", "err"} : UserIsOperatorReply(outcome)
    \/ AuthorizeDelete

SpecAuthz == AuthzInit /\ [][AuthzNext]_vars

AzWriteDone == azIn.pc = "done" /\ azIn.op = "write"

\* C13: authorization of a probe write is skipped only when skipauthz was
\* requested in the probe data and the owner is the admin UUID; for any other
\* owner the request is ignored and the decision tree is evaluated from its
\* first rule.
C13_SkipAuthzOnlyForAdmin ==
    azIn.op = "write" =>
        /\ azIn.skip <=> (AzProbe.skipauthz /\ AzProbe.user = adminUuid)
        /\ azIn.pc = "done" /\ azIn.calls = {} => azIn.skip /\ azOut = "authorized"
        /\ azIn.pc = "done" /\ ~azIn.skip => "serverExists" \in azIn.calls

\* A non-admin owner asked for skipauthz and the write was denied by the
\* decision tree.
C13_Witness ==
    /\ AzWriteDone
    /\ AzProbe.skipauthz /\ AzProbe.user # adminUuid
    /\ azOut = "InvalidArgument"

\* C14: without skip-authz, when the agent is an existing physical server the
\* write is authorized exactly for an operator, a non-operator is denied with
\* InvalidArgument, and neither VM lookup nor the runInVmHost rule is
\* consulted.
C14_PhysicalServerNeedsOperator ==
    (azIn.op = "write" /\ ~azIn.skip /\ "serverExists" \in azIn.calls
        /\ "serverExists" \notin azIn.errs /\ AzProbe.agent \in Servers) =>
        /\ azIn.calls \subseteq {"serverExists", "isOperator"}
        /\ azIn.pc = "done" =>
              /\ azOut = "authorized" => AzProbe.user \in Operators
              /\ "isOperator" \notin azIn.errs =>
                    azOut = (IF AzProbe.user \in Operators THEN "authorized"
                             ELSE "InvalidArgument")

\* A non-operator was denied a probe on the physical server.
C14_Witness ==
    /\ AzWriteDone /\ ~azIn.skip
    /\ AzProbe.agent \in Servers /\ AzProbe.user \notin Operators
    /\ azOut = "InvalidArgument"

\* C15: without skip-authz, when the agent is not a physical server, a
\* non-operator is authorized exactly when the probe's machine is a VM that
\* the actor owns.
C15_NonOperatorNeedsOwnedMachine ==
    (AzWriteDone /\ ~azIn.skip /\ azIn.errs = {}
        /\ AzProbe.agent \notin Servers /\ AzProbe.user \notin Operators) =>
        (azOut = "authorized" <=> getVmOwned(AzProbe.machine, AzProbe.user))

\* C16: without skip-authz, when the agent is not a physical server and the
\* machine is not a VM owned by the actor, the write is authorized exactly
\* when the probe type is runInVmHost, the machine is an existing VM and the
\* actor is an operator, and is otherwise denied with InvalidArgument.
C16_RunInVmHostNeedsOperator ==
    (AzWriteDone /\ ~azIn.skip /\ azIn.errs = {}
        /\ AzProbe.agent \notin Servers
        /\ ~getVmOwned(AzProbe.machine, AzProbe.user)) =>
        azOut = (IF /\ plugins[AzProbe.type].runInVmHost
                    /\ getVm(AzProbe.machine)
                    /\ AzProbe.user \in Operators
                   THEN "authorized" ELSE "InvalidArgument")

\* C17: when a lookup of authorizeWrite failed for a reason other than
\* not-found, the result is InternalError.
C17_LookupFailureIsInternalError ==
    (AzWriteDone /\ azIn.errs # {}) => azOut = "InternalError"

\* C18: authorizeDelete reports success when the actor is the probe's owner or
\* an operator, and a denial for any other actor.  The actor of the model is
\* the owner.
C18_DeleteOwnerOrOperator ==
    (azIn.pc = "done" /\ azIn.op = "delete") => azOut = "authorized"

----------------------------------------------------------------------------
\* Creating maintenance windows with any scopes and any start and end, on a
\* store that already holds a window whose scopes are not valid.

\* The largest N of an end 'N[mhd]'.
MaxN == 2

\* A second value of the clock at which requests are served.
ExampleNow == 1000000

\* The scopes a create request can name: none, one, or two.
ScopeChoices ==
    {[all |-> FALSE, probes |-> {}, probeGroups |-> {}, machines |-> {}],
     [all |-> TRUE, probes |-> {}, probeGroups |-> {}, machines |-> {}],
     [all |-> FALSE, probes |-> {"p1"}, probeGroups |-> {}, machines |-> {}],
     [all |-> TRUE, probes |-> {"p1"}, probeGroups |-> {}, machines |-> {}],
     [all |-> FALSE, probes |-> {}, probeGroups |-> {"g1"}, machines |-> {"m1"}]}

\* start: 'now' or a timestamp in the future; end: relative, with N from
\* -1 to MaxN, or a timestamp that is not in the future.
StartChoices == {[kind |-> "now", t |-> 0], [kind |-> "ts", t |-> 3 * TickMs]}
EndChoices ==
    {EndRel(1, "m"), EndRel(1, "h"), EndRel(MaxN, "d"), EndRel(0, "m"),
     EndRel(0 - 1, "h"), EndTs(TickMs)}

\* The options of the create requests: every choice of scopes with start
\* 'now' and a relative end, and every start and end with the scope all.
CreateOptsWide ==
    {[start |-> st, end |-> en, all |-> sc.all, probes |-> sc.probes,
      probeGroups |-> sc.probeGroups, machines |-> sc.machines] :
        st \in {[kind |-> "now", t |-> 0]}, en \in {EndRel(1, "m")},
        sc \in ScopeChoices}
    \cup
    {[start |-> st, end |-> en, all |-> TRUE, probes |-> {}, probeGroups |-> {},
      machines |-> {}] : st \in StartChoices, en \in EndChoices}

\* Windows in storage that the Maintenance constructor refuses: no scope, two
\* scopes.
BogusWindows ==
    {Win("u1", 1, TickMs, 3 * TickMs, FALSE, {}, {}, {}),
     Win("u1", 1, TickMs, 3 * TickMs, TRUE, {"p1"}, {}, {})}

CreateInit ==
    /\ maintenanceIds = [u \in Users |-> IF u = "u1" THEN 1 ELSE 0]
    /\ maintSet = [u \in Users |-> IF u = "u1" THEN {1} ELSE {}]
    /\ byEnd = (<<"u1", 1>> :> 3 * TickMs)
    /\ \E w \in BogusWindows : hashes = (<<"u1", 1>> :> w)
    /\ now \in {TickMs, ExampleNow}
    /\ tracked = {}
    /\ orphans = EmptyBag
    /\ schedPending = 1
    /\ fireOps = EmptyBag
    /\ kvErrs = 0
    /\ reqs = [s \in 1..MaxReqs |-> IdleReq]
    /\ issued = [u \in Users |-> [n \in 1..maintenanceIds[u] |-> n]]
    /\ EvInit /\ PdIdle /\ AuxIdle

\* The request handlers and the reaper's scheduling, within one tick of the
\* clock.
CreateNext ==
    \/ \E s \in Slots, u \in Users, o \in CreateOptsWide : StartCreate(s, u, o)
    \/ \E s \in Slots, fail \in BOOLEAN : CreateHincrby(s, fail)
    \/ \E s \in Slots, fail \in BOOLEAN : CreateMulti(s, fail)
    \/ \E s \in Slots, type \in {"get", "delete"}, u \in Users, id \in 1..MaxId :
          StartGetOrDelete(s, type, u, id)
    \/ \E s \in Slots, fail \in BOOLEAN : ReqHgetall(s, fail)
    \/ \E s \in Slots, fail \in BOOLEAN : ReqFakeDel(s, fail)
    \/ \E s \in Slots, fail \in BOOLEAN : ReqHget(s, fail)
    \/ \E s \in Slots, fail \in BOOLEAN, endErr \in BOOLEAN : ReqDelMulti(s, fail, endErr)
    \/ \E s \in Slots, u \in Users : StartList(s, u)
    \/ \E s \in Slots, fail \in BOOLEAN : ListSmembers(s, fail)
    \/ \E s \in Slots, id \in 1..MaxId, fail \in BOOLEAN : ListHgetall(s, id, fail)
    \/ \E s \in Slots, id \in 1..MaxId, fail \in BOOLEAN : ListFakeDel(s, id, fail)
    \/ \E outcome \in {"cerr", "err", "ok"} : SchedZrange(outcome)

SpecCreate == CreateInit /\ [][CreateNext]_vars

\* The scopes that are set in a window or in the options of a create.
ScopesSet(d) ==
    {x \in {"all"} : d.all} \cup {x \in {"probes"} : d.probes # {}}
        \cup {x \in {"probeGroups"} : d.probeGroups # {}}
        \cup {x \in {"machines"} : d.machines # {}}

C20_StoredStartBeforeEnd ==
    /\ \A k \in DOMAIN hashes : hashes[k].start < hashes[k].end
    /\ \A s \in Slots :
          reqs[s].type = "create" =>
              \A m \in reqs[s].maint : m.start >= m.end => reqs[s].resp # "ok"

C22_NameLengthBoundary ==
    \A d \in azIn.data :
        (azIn.pc # "idle"
            /\ (plugins[d.type].runLocally => d.agent = d.machine)) =>
            ((azIn.pc = "done" /\ azIn.op \in {"create", "load"})
                <=> d.nameLen >= 513)

\* C23: a failure of the store met while serving a maintenance endpoint is
\* answered InternalError: no request is answered with the store's own error.
\* (In the model only a failed command gives the answer "RedisError", and a
\* failed command never gives 404, 410 or a success.)
C23_KvFailureIsInternalError ==
    \A s \in Slots : reqs[s].resp # "RedisError"

\* C24: a GET of one window or of the list never removes or alters a window
\* that a create stored: a window whose create was answered stays in the set,
\* the index and the hash until a DELETE request or the reaper removes it.
C24_GetLeavesStoreUnchanged ==
    [][\A s \in Slots :
          (reqs[s].type \in {"get", "list"} /\ reqs'[s] # reqs[s]) =>
              \A k \in DOMAIN hashes :
                  MaintenanceValid(hashes[k]) =>
                      /\ k \in DOMAIN hashes' /\ hashes'[k] = hashes[k]
                      /\ k \in DOMAIN byEnd' /\ k[2] \in maintSet'[k[1]]]_vars

----------------------------------------------------------------------------
\* C25: an event that violates the event schema (no `status`, or a `status`
\* outside the allowed values) is rejected before it is routed: it is never
\* handed to processEvent, no contact of it is notified, and the request is
\* never answered 202 Accepted.
SchemaViolation(e) == e.status = {} \/ ~(e.status \subseteq EventStatuses)

C25_SchemaViolationRejected ==
    \A i \in DOMAIN evs :
        SchemaViolation(evBody[i]) =>
            /\ evs[i].handed = 0
            /\ \A j \in DOMAIN evs[i].notified : evs[i].notified[j] = 0
            /\ \A k \in DOMAIN evReplies : evReplies[k].kind # "Accepted"

\* C26: an event whose probe cannot be resolved for the event's user fails.
\* Once Monitor.get called back for it, none of its contacts was notified or
\* alarmed, its error is the not-found error (404) when the probe is unknown
\* and the 409 error when the probe belongs to another owner, and a request
\* holding only that event is answered with that one error.
C26_UnresolvedProbeFails ==
    \A i \in DOMAIN evs :
        (evBody[i].owner # "user" /\ evs[i].cbs > 0) =>
            /\ \A j \in DOMAIN evs[i].notified : evs[i].notified[j] = 0
            /\ \A j \in DOMAIN evs[i].alarms : evs[i].alarms[j] = 0
            /\ evs[i].err # 0
            /\ evs[i].errKind = IF evBody[i].owner = "none" THEN "ResourceNotFound"
                                ELSE "InvalidArgument"
            /\ Len(evBody) = 1 => evReplies = <<[kind |-> "error", errs |-> <<evs[i].err>>]>>

----------------------------------------------------------------------------
\* GET /maintenances, the list across all users.

\* mountApi: `/maintenances` is served by apiListAllMaintenanceWindows alone.
\* The caller is an input of the request; no handler of the route reads it.
StartListAll(s, caller) ==
    /\ NextSlot(s)
    /\ reqs' = [reqs EXCEPT ![s] = [IdleReq EXCEPT !.type = "listall", !.caller = caller,
                             !.pc = "zrange"]]
    /\ UNCHANGED <<kvVars, rpVars, issued>>
    /\ MtFrame

\* The list-all request after one more of its Maintenance.get calls ended.
\* async.map calls back at the first error (next(getErr)) and otherwise when
\* the last call ended: with a null among the results the handler returns
\* without responding, else it sends the serialized windows.
ListAllAfter(r) ==
    IF r.todo = {} /\ r.bogus = {}
      THEN [r EXCEPT !.pc = "done",
                     !.resp = IF r.resp # "" THEN r.resp
                              ELSE IF r.nulls THEN "" ELSE "ok"]
    ELSE r

\* ZRANGE maintenancesByEnd 0 -1 and its callback: async.map sends a
\* Maintenance.get for each key.
ListAllZrange(s, fail) ==
    /\ reqs[s].type = "listall" /\ reqs[s].pc = "zrange"
    /\ IF fail
         THEN /\ KvFails
              /\ reqs' = [reqs EXCEPT ![s].pc = "done", ![s].resp = "RedisError"]
       ELSE /\ UNCHANGED kvErrs
            /\ reqs' = [reqs EXCEPT ![s] = ListAllAfter([@ EXCEPT !.pc = "map",
                                                                 !.todo = DOMAIN byEnd])]
    /\ UNCHANGED <<kvVars, now, tracked, orphans, schedPending, fireOps, issued>>
    /\ MtFrame

\* HGETALL of one Maintenance.get of the list-all request, and its callback.
ListAllHgetall(s, k, fail) ==
    /\ reqs[s].type = "listall" /\ reqs[s].pc = "map"
    /\ k \in reqs[s].todo
    /\ IF fail
         THEN /\ KvFails
              /\ reqs' = [reqs EXCEPT ![s] = ListAllAfter([@ EXCEPT !.todo = @ \ {k},
                                 !.resp = IF @ = "" THEN "RedisError" ELSE @])]
       ELSE LET data == HGetAll(k) IN
            /\ UNCHANGED kvErrs
            /\ IF assertRedisObject(data)
                 THEN reqs' = [reqs EXCEPT ![s] = ListAllAfter([@ EXCEPT !.todo = @ \ {k},
                                 !.resp = IF @ = "" THEN "RedisError" ELSE @])]
               ELSE IF \E d \in data : MaintenanceValid(d)
                 THEN reqs' = [reqs EXCEPT ![s] = ListAllAfter([@ EXCEPT !.todo = @ \ {k},
                                                                       !.got = @ \cup data])]
               ELSE reqs' = [reqs EXCEPT ![s].todo = @ \ {k}, ![s].bogus = @ \cup {k}]
    /\ UNCHANGED <<kvVars, now, tracked, orphans, schedPending, fireOps, issued>>
    /\ MtFrame

\* MULTI srem zrem del EXEC for a bogus window met by the list-all request:
\* Maintenance.get calls back with the delete's error and a null window.
ListAllFakeDel(s, k, fail) ==
    /\ reqs[s].type = "listall" /\ reqs[s].pc = "map"
    /\ k \in reqs[s].bogus
    /\ IF fail
         THEN /\ KvFails
              /\ reqs' = [reqs EXCEPT ![s] = ListAllAfter([@ EXCEPT !.bogus = @ \ {k},
                                 !.resp = IF @ = "" THEN "RedisError" ELSE @])]
              /\ UNCHANGED <<maintSet, byEnd, hashes>>
       ELSE /\ KvDelete(k)
            /\ reqs' = [reqs EXCEPT ![s] = ListAllAfter([@ EXCEPT !.bogus = @ \ {k},
                                                                 !.nulls = TRUE])]
            /\ UNCHANGED kvErrs
    /\ UNCHANGED <<maintenanceIds, now, tracked, orphans, schedPending, fireOps, issued>>
    /\ MtFrame

\* The store holds a window of u1, valid or bogus, and a window of u2 or none.
ListAllInit ==
    /\ maintenanceIds = [u \in Users |-> 1]
    /\ \E w \in BogusWindows \cup {WinAll("u1", 1, TickMs, 3 * TickMs)},
          other \in SUBSET {<<"u2", 1>>} :
          /\ hashes = [k \in {<<"u1", 1>>} \cup other |->
                          IF k[1] = "u1" THEN w ELSE WinAll("u2", 1, TickMs, 2 * TickMs)]
          /\ byEnd = [k \in {<<"u1", 1>>} \cup other |->
                          IF k[1] = "u1" THEN 3 * TickMs ELSE 2 * TickMs]
          /\ maintSet = [u \in Users |-> {k[2] : k \in {x \in {<<"u1", 1>>} \cup other : x[1] = u}}]
    /\ now = TickMs
    /\ tracked = {}
    /\ orphans = EmptyBag
    /\ schedPending = 0
    /\ fireOps = EmptyBag
    /\ kvErrs = 0
    /\ reqs = [s \in 1..MaxReqs |-> IdleReq]
    /\ issued = [u \in Users |-> <<1>>]
    /\ EvInit /\ PdIdle /\ AuxIdle

ListAllNext ==
    \/ \E s \in Slots, caller \in Actors : StartListAll(s, caller)
    \/ \E s \in Slots, fail \in BOOLEAN : ListAllZrange(s, fail)
    \/ \E s \in Slots, k \in Keys, fail \in BOOLEAN : ListAllHgetall(s, k, fail)
    \/ \E s \in Slots, k \in Keys, fail \in BOOLEAN : ListAllFakeDel(s, k, fail)

SpecListAll == ListAllInit /\ [][ListAllNext]_vars

\* C27: GET /maintenances returns windows only to an operator: a request of a
\* caller who is not an operator is never answered with maintenance windows.
C27_ListAllOperatorOnly ==
    \A s \in Slots :
        (reqs[s].type = "listall" /\ reqs[s].caller \notin Operators /\ reqs[s].resp = "ok") =>
            reqs[s].got = {}

----------------------------------------------------------------------------
\* C28: a window covers the half-open interval [start, end).  An event whose
\* time equals the start of a window that has it in scope is inside the window
\* (isEventInMaintenance returns a window), and an event is outside every
\* window whose end equals its time.
CoversHalfOpen(w, e, g) ==
    /\ w.start <= e.time /\ e.time < w.end
    /\ \/ w.all
       \/ \E a \in w.probeGroups : \E x \in g : x \in a
       \/ \E a \in w.probes : \E x \in e.probeUuid : x \in a
       \/ \E a \in w.machines : \E x \in e.machine : x \in a

C28_HalfOpenInterval ==
    \A r \in pdOut :
        (r.maint # {}) <=>
            (\E w \in StoredOf(pdIn.event.user) :
                CoversHalfOpen(w, pdIn.event, pdIn.probeGroup))

----------------------------------------------------------------------------
\* C29: at every moment at most one expiry timer (retry timers included) is
\* pending and at most one reap action is in flight.
C29_SingleTimerSingleReap ==
    /\ Cardinality(tracked) + BagSize(orphans) <= 1
    /\ BagSize(fireOps) <= 1

----------------------------------------------------------------------------
\* C30: after a successful create, a successful delete, or the removal of a
\* bogus record by a request, whenever the time index is non-empty a timer
\* targeting the entry with the smallest end is eventually pending (or the
\* index has become empty).
ReArmingOpCompleted ==
    \E s \in Slots :
        /\ reqs[s].pc = "done"
        /\ \/ reqs[s].type = "create" /\ reqs[s].resp = "ok"
           \/ reqs[s].type = "delete" /\ reqs[s].resp = "204"
           \/ reqs[s].type \in {"get", "delete"} /\ reqs[s].resp \in {"Gone", "ResourceNotFound"}

TimerOnSmallestEnd ==
    \E t \in Timers : t.kind = "expiry" /\ t.key \in ZRangeFirst

C30_ReArmedAfterChange ==
    (ReArmingOpCompleted /\ byEnd # EmptyBag) ~> (TimerOnSmallestEnd \/ byEnd = EmptyBag)

----------------------------------------------------------------------------
\* C31: whenever a step of the reaper (its ZRANGE, the fetch of the window on
\* fire, the delete) meets a KV error, the reaper schedules a new attempt: the
\* 5-minute retry timer is set, or scheduleNextMaintenanceExpiry is called
\* again.
ReaperKvError ==
    /\ kvErrs' = kvErrs + 1
    /\ schedPending' = schedPending - 1 \/ fireOps' # fireOps

C31_ReaperReArmsOnKvError ==
    [][ReaperKvError =>
          \/ BagSize(orphans') = BagSize(orphans) + 1
          \/ schedPending' = schedPending + 1]_vars

----------------------------------------------------------------------------
----------------------------------------------------------------------------
\* C33: listMaintenances(U) returns the windows of U whose stored hash
\* validates.  Each Maintenance.get of the list that finds a valid hash adds
\* that window to the result; one that finds the hash missing or invalid adds
\* nothing and issues a delete, and once that delete has run the id is out of
\* the per-user set, its key out of the time index (so it is not the entry
\* ZRANGE gives the reaper) and its hash is gone.  A list answered without
\* error holds valid windows of U only.
ListStepOk(s) ==
    /\ reqs[s].type = "list" /\ reqs[s].pc = "map"
    /\ kvErrs' = kvErrs

C33_ListDropsAndDeletesBogus ==
    [][\A s \in Slots :
          /\ ListStepOk(s) =>
                /\ \A id \in reqs[s].todo \ reqs'[s].todo :
                      LET k == <<reqs[s].user, id>> IN
                      IF HasHash(k) /\ MaintenanceValid(hashes[k])
                        THEN /\ reqs'[s].got = reqs[s].got \cup {hashes[k]}
                             /\ id \notin reqs'[s].bogus
                      ELSE /\ reqs'[s].got = reqs[s].got
                           /\ id \in reqs'[s].bogus
                /\ \A id \in reqs[s].bogus \ reqs'[s].bogus :
                      LET k == <<reqs[s].user, id>> IN
                      /\ id \notin maintSet'[k[1]]
                      /\ k \notin DOMAIN byEnd' /\ k \notin ZRangeFirst'
                      /\ k \notin DOMAIN hashes'
                      /\ reqs'[s].got = reqs[s].got
          /\ (reqs'[s].type = "list" /\ reqs'[s].resp = "ok") =>
                \A w \in reqs'[s].got : MaintenanceValid(w) /\ w.user = reqs'[s].user]_vars

\* A list of u1 was answered without error after it met the bogus window
\* u1:1 and removed it, and it returned a valid window.
C33_Witness ==
    \E s \in Slots :
        /\ reqs[s].type = "list" /\ reqs[s].user = "u1" /\ reqs[s].resp = "ok"
        /\ reqs[s].got # {}
        /\ <<"u1", 1>> \notin DOMAIN hashes /\ 1 \notin maintSet["u1"]
        /\ \A x \in Slots : reqs[x].type \notin {"get", "delete"}

----------------------------------------------------------------------------
\* Cache invalidation (App.prototype.cacheInvalidatePut and
\* cacheInvalidateDelete) over the five caches of _cacheFromScope, each a
\* function from the keys it holds to the cached value.

CacheScopes == {"MonitorGet", "MonitorList", "ProbeGet", "ProbeList", "headAgentProbes"}
ModelNames == {"Monitor", "Probe"}
Dns == {"dn1", "dn2"}
ListKeys == {"l1", "l2"}
AgentUuids == {"a1", "a2"}

\* The keys of a scope, and the values cached under them: a response, or for
\* the Get caches also an error response.
ScopeKeys(scope) ==
    IF scope \in {"MonitorGet", "ProbeGet"} THEN Dns
    ELSE IF scope = "headAgentProbes" THEN AgentUuids
    ELSE ListKeys
ScopeValues(scope) ==
    IF scope \in {"MonitorGet", "ProbeGet"} THEN {"ok", "err"} ELSE {"ok"}

\* The object handed to cacheInvalidatePut/Delete: dn is the set holding
\* item.raw.dn and zone the set holding item.zone ({} when the object has no
\* such property); agent is the UUID of the probe's agent.
InvalItems ==
    {[dn |-> d, agent |-> a, zone |-> z] :
        d \in {{}} \cup {{x} : x \in Dns}, a \in AgentUuids, z \in {{}} \cup {{x} : x \in AgentUuids}}

\* The objects the callers hand over: one whose zone is its agent's, as the
\* probes this app.js was written for, or one without `zone`.
ItemsOf(modelName) ==
    IF modelName = "Probe"
      THEN {i \in InvalItems : i.zone \in {{}, {i.agent}}}
    ELSE {i \in InvalItems : i.zone = {} /\ i.agent = "a1"}

\* Cache.reset and Cache.del.
CacheReset(cache) == <<>>
CacheDel(cache, keys) == [k \in DOMAIN cache \ keys |-> cache[k]]

\* App.prototype.cacheSet(scope, key, value).
cacheSetKey(c, scope, key, value) ==
    IF ~c.on THEN c
    ELSE [c EXCEPT ![scope] = [k \in DOMAIN c[scope] \cup {key} |->
                                  IF k = key THEN value ELSE c[scope][k]]]

\* Whether `assert.ok(dn)` throws.
dnAssertThrows(item) == item.dn = {}

\* App.prototype.cacheInvalidatePut(modelName, item): the caches it leaves.
cacheInvalidatePutGetOnly(c, modelName, item) ==
    IF ~c.on \/ dnAssertThrows(item) THEN c
    ELSE [c EXCEPT ![IF modelName = "Monitor" THEN "MonitorGet" ELSE "ProbeGet"] =
                       CacheDel(@, item.dn)]
cacheInvalidatePutItem(c, modelName, item) ==
    IF ~c.on \/ dnAssertThrows(item) THEN c
    ELSE LET c1 == IF modelName = "Monitor"
                     THEN [c EXCEPT !.MonitorList = CacheReset(@),
                                    !.MonitorGet = CacheDel(@, item.dn)]
                   ELSE [c EXCEPT !.ProbeList = CacheReset(@),
                                  !.ProbeGet = CacheDel(@, item.dn)]
         IN IF modelName = "Probe"
              THEN [c1 EXCEPT !.headAgentProbes = CacheDel(@, item.zone)]
            ELSE c1

\* App.prototype.cacheInvalidateDelete(modelName, item).
cacheInvalidateDeleteItem(c, modelName, item) ==
    IF ~c.on \/ dnAssertThrows(item) THEN c
    ELSE LET c1 == IF modelName = "Monitor"
                     THEN [c EXCEPT !.MonitorList = CacheReset(@),
                                    !.MonitorGet = CacheDel(@, item.dn)]
                   ELSE [c EXCEPT !.ProbeList = CacheReset(@),
                                  !.ProbeGet = CacheDel(@, item.dn)]
         IN IF modelName = "Probe"
              THEN [c1 EXCEPT !.headAgentProbes = CacheDel(@, item.zone)]
            ELSE c1

IvFrame == PdFrame /\ UNCHANGED <<cacheVars, suVars, azVars>>

\* A handler stores a response in a cache.
KcSet(scope, key, value) ==
    /\ kc.on
    /\ kc' = cacheSetKey(kc, scope, key, value)
    /\ kc' # kc
    /\ ivCall' = {}
    /\ IvFrame

\* A write handler calls cacheInvalidatePut, a delete handler
\* cacheInvalidateDelete.
InvalidatePut(modelName, item) ==
    /\ kc' = cacheInvalidatePutItem(kc, modelName, item)
    /\ ivCall' = {[op |-> "put", modelName |-> modelName, item |-> item,
                   threw |-> kc.on /\ dnAssertThrows(item)]}
    /\ IvFrame

InvalidateDelete(modelName, item) ==
    /\ kc' = cacheInvalidateDeleteItem(kc, modelName, item)
    /\ ivCall' = {[op |-> "delete", modelName |-> modelName, item |-> item,
                   threw |-> kc.on /\ dnAssertThrows(item)]}
    /\ IvFrame

InvalInit ==
    /\ kc \in {[on |-> o, MonitorGet |-> <<>>, MonitorList |-> <<>>, ProbeGet |-> <<>>,
                ProbeList |-> <<>>, headAgentProbes |-> <<>>] : o \in BOOLEAN}
    /\ ivCall = {}
    /\ CacheIdle /\ SuIdle /\ AzIdle
    /\ StoreEmpty /\ RpIdle /\ RqIdle /\ PdIdle /\ EvInit

InvalNext ==
    \/ \E scope \in CacheScopes : \E key \in ScopeKeys(scope), value \in ScopeValues(scope) :
          KcSet(scope, key, value)
    \/ \E modelName \in ModelNames : \E item \in ItemsOf(modelName) :
          InvalidatePut(modelName, item)
    \/ \E modelName \in ModelNames : \E item \in ItemsOf(modelName) :
          InvalidateDelete(modelName, item)

SpecInval == InvalInit /\ [][InvalNext]_vars

C35_ProbeWriteDropsAgentProbes ==
    \A call \in ivCall :
        (kc.on /\ call.modelName = "Probe") =>
            call.item.agent \notin DOMAIN kc.headAgentProbes

----------------------------------------------------------------------------
\* C36: when the directory search of userFromId for id x completes, a found
\* user is cached under both the user's UUID and login; no user or a failed
\* lookup is cached, as the negative or error result, under x only; and a
\* lookup of an id the cache holds is answered with the cached outcome
\* without a directory search.
SetupIdOf(req) == CHOOSE x \in req.userId : TRUE

C36_UserCachePopulation ==
    [][\A r \in 1..MaxSetups :
          /\ (suIn[r].pc = "search" /\ suIn'[r].pc # "search") =>
                LET x == SetupIdOf(suIn[r]) IN
                IF suIn'[r].reported = "user"
                  THEN /\ suOut'[UserA.uuid] = {[err |-> "", user |-> {UserA}]}
                       /\ suOut'[UserA.login] = {[err |-> "", user |-> {UserA}]}
                       /\ \A id \in SetupIds \ {UserA.uuid, UserA.login} :
                             suOut'[id] = suOut[id]
                ELSE /\ \E c \in suOut'[x] :
                          /\ c.user = {}
                          /\ (suIn'[r].reported = "nouser") <=> (c.err = "")
                          /\ suIn'[r].reported = "err" => suIn'[r].sent = c.err
                     /\ \A id \in SetupIds \ {x} : suOut'[id] = suOut[id]
          /\ (suIn[r].pc = "idle" /\ suIn'[r].pc # "idle" /\ suIn'[r].userId # {}) =>
                LET x == SetupIdOf(suIn'[r]) IN
                \A c \in suOut[x] :
                    /\ suIn'[r].pc # "search"
                    /\ suOut' = suOut
                    /\ suIn'[r].user = c.user
                    /\ (c.err # "") <=> (suIn'[r].reported = "err")
                    /\ c.err # "" => suIn'[r].sent = c.err]_vars

\* A lookup by login found the user, both keys are cached, and a lookup by
\* UUID got the user too.
C36_Witness ==
    /\ suOut["uuid-a"] # {} /\ suOut["login-a"] # {}
    /\ \E r \in 1..MaxSetups : suIn[r].userId = {"login-a"} /\ suIn[r].reported = "user"
    /\ \E r \in 1..MaxSetups : suIn[r].userId = {"uuid-a"} /\ suIn[r].reported = "user"

\* C37: for a user id that is neither a UUID nor a syntactically valid login,
\* userFromId reports an invalid-argument error and no directory search is
\* made.
SyntacticallyValidId(id) == id \in {"uuid-a", "uuid-x", "login-a"}

C37_BadIdRejectedWithoutSearch ==
    \A r \in 1..MaxSetups :
        \A id \in suIn[r].userId :
            ~SyntacticallyValidId(id) =>
                /\ suIn[r].pc # "search"
                /\ suIn[r].pc # "idle" => suIn[r].sent = "InvalidArgument"

----------------------------------------------------------------------------
\* C38: the reaper never removes a window early: whenever a step of a fired
\* reaper timer removes the hash of a window, the current time is at or after
\* that window's end.
C38_NoEarlyReap ==
    [][\A k \in DOMAIN hashes :
          (fireOps' # fireOps /\ k \notin DOMAIN hashes') => hashes[k].end <= now]_vars

\* A created window is gone from the store with no request other than creates
\* having been made: the reaper removed it.
C38_Witness ==
    /\ \E s \in Slots :
          /\ reqs[s].type = "create" /\ reqs[s].resp = "ok"
          /\ <<reqs[s].user, reqs[s].id>> \notin DOMAIN hashes
    /\ \A s \in Slots : reqs[s].type \in {"idle", "create"}

----------------------------------------------------------------------------
\* C39: GET /maintenances ends with a response (the list or an error): once
\* every redis call of the request has called back, a response was sent.
C39_ListAllAlwaysResponds ==
    \A s \in Slots :
        (reqs[s].type = "listall" /\ reqs[s].pc = "done") => reqs[s].resp # ""

----------------------------------------------------------------------------
\* C40: for every user the counter maintenanceIds[U] never decreases, and
\* every id in the per-user set is at most the counter, so that the id of a
\* stored window is one the 404/410 disambiguation takes as issued.
C40_IdsBoundedByCounter ==
    [][\A u \in Users :
          /\ maintenanceIds'[u] >= maintenanceIds[u]
          /\ \A id \in maintSet[u] : id <= maintenanceIds[u]
          /\ \A id \in maintSet'[u] : id <= maintenanceIds'[u]]_vars

\* The latest id handed out to u1 is in u1's set.
C40_Witness ==
    /\ maintenanceIds["u1"] = MaxId
    /\ MaxId \in maintSet["u1"]

====
